---- MODULE Spec2Model ----
(***************************************************************************)
(* Model of src/ripple/app/main/Application.cpp:                           *)
(*   - detail::AppFamily::missing_node (the missing-node coordinator),     *)
(*   - ApplicationImp lifecycle: setup / run / signalStop / onStop,        *)
(*     onDeadlineTimer / doSweep,                                          *)
(*   - ApplicationImp::startGenesisLedger / getLastFullLedger /            *)
(*     loadOldLedger (the ledger bootstrap).                               *)
(***************************************************************************)
EXTENDS Integers, Sequences, FiniteSets, TLC

\* ------------------------------------------------------------------ bounds
NumThreads == 2
MaxSeq == 3
MaxDepth == 2
NumHashes == 2
NumWorkers == 2
MaxStopCalls == 2
MaxFirings == 2
MaxTxs == 3
MaxEntries == 3
MaxSignals == 2

Threads == 1..NumThreads
Seqs == 1..MaxSeq
Hashes == 1..NumHashes
ZeroHash == 0

VARIABLES
    maxSeq,        \* AppFamily::maxSeq, the remembered target (0 = idle)
    maxSeqLock,    \* AppFamily::maxSeqLock: 0 = free, else the owning thread
    stack,         \* per thread: the activations of missing_node(seq), innermost last
    notified,      \* history: sequence numbers examined under the lock so far
    lastAcquire,   \* history: the last acquire(hash, seq) request, <<0, 0>> = none
    loopStat,      \* history, kept where on is set: the iterations begun by
                   \* the running recovery loop and the times the target was
                   \* raised since it began
    hashCall,      \* history: the last call of missing_node (hash) and its request
    spaceSeen,     \* history, kept where on is set: space.available as the last
                   \* firing of the sweep timer read it
    cfg,           \* Config: START_UP, RUN_STANDALONE, START_LEDGER
    health,        \* history: the last call of serverOkay and what it answered
    mainPc,        \* position of the main thread in setup() / run()
    exitCode,      \* <<code>> once exitWithCode (code) was called, else NoExit
    exitSite,      \* history: the call of exitWithCode that ended the process
    life,          \* RootStoppable state of the application
    m_stop,        \* WaitableEvent m_stop: signalled or not
    stopIdx,       \* next statement of onStop to execute (0 = not in onStop)
    stopLog,       \* history: the statements of onStop executed so far
    shutdownRuns,  \* history: number of times stop() ran the shutdown sequence
    stopRequested, \* history: signalStop() has been called
    extStops,      \* number of explicit signalStop() requests so far
    sigWait,       \* m_signals.async_wait pending
    sigSeen,       \* history: number of SIGINTs that have reached the process
    sigPending,    \* m_signals: notifications queued, no handler was waiting
    sigStops,      \* history: number of signalStop() calls made by signalled
    sweepTimer,    \* m_sweepTimer: "off", "initial" (10 s) or "interval"
    entropyTimer,  \* m_entropyTimer: "off" or "recurring"
    firings,       \* number of sweep-timer firings so far
    entropyAdds,   \* add_entropy has been called by the entropy timer
    sweepJobs,     \* JobQueue: queued jtSWEEP jobs (each: fired below the floor?)
    sweep,         \* per worker: the doSweep pass it runs (step 0 = none)
    probe,         \* m_io_latency_sampler
    resolver,      \* m_resolver
    deadlockDetector, \* LoadManager deadlock detector armed
    lcl,           \* LedgerMaster: the last closed ledger (switchLCL)
    openLedger,    \* openLedger_: the ledger the open view is built on
    storedLedgers, \* LedgerMaster::storeLedger
    lastCloseTime, \* NetworkOPs::setLastCloseTime
    needNetLedger, \* NetworkOPs::needNetworkLedger called
    bootLog,       \* history: the bootstrap calls setup() has made, in order
    load,          \* loadOldLedger: its locals and its outcome
    replayPkg,     \* the LedgerReplay given to LedgerMaster::takeReplay
    txStore,       \* the transaction maps the stored ledgers may hold
    txMap,         \* txMap of the ledger to replay: the transaction index of
                   \* each transaction, in the order the map is visited
    sigGoodOnly,   \* HashRouter: transactions forced to Validity::SigGoodOnly
    openTxs        \* transactions put into the open ledger by rawTxInsert

mnVars == <<maxSeq, maxSeqLock, stack, notified, lastAcquire, loopStat>>
mainVars == <<mainPc, exitCode, exitSite>>
stopVars == <<life, stopIdx, stopLog, shutdownRuns, probe, resolver, deadlockDetector>>
sigHist == <<sigSeen, sigPending, sigStops>>
sigVars == <<m_stop, stopRequested, extStops, sigWait, sigHist>>
timerVars == <<sweepTimer, entropyTimer, firings, entropyAdds>>
jobVars == <<sweepJobs, sweep>>
replayVars == <<replayPkg, txStore, txMap, sigGoodOnly, openTxs>>
ledgerVars == <<lcl, openLedger, storedLedgers, lastCloseTime, needNetLedger,
               bootLog, load, replayVars>>
lifeVars == <<mainVars, stopVars, sigVars, timerVars, jobVars>>

envVars == <<cfg, health, hashCall, spaceSeen>>

vars == <<mnVars, envVars, lifeVars, ledgerVars>>

\* ------------------------------------------------- missing_node(std::uint32_t)

MaxOf(S) == IF S = {} THEN 0 ELSE CHOOSE m \in S : \A x \in S : x <= m

Depth(t) == Len(stack[t])
Top(t) == stack[t][Len(stack[t])]
SetTop(t, f) == [stack EXCEPT ![t] = [@ EXCEPT ![Len(@)] = f]]

\* no iteration begun, no raise seen; not counting, counting
NoLoopStat == [on |-> FALSE, iters |-> 0, raised |-> 0]
LoopStatZero == [on |-> TRUE, iters |-> 0, raised |-> 0]

\* a frame: pc, the local seq, whether this activation entered the do/while
\* loop (own), the last target it looked up (last), the hash it got (hash)
Frame(s) == [pc |-> "lock", seq |-> s, own |-> FALSE, last |-> 0, hash |-> ZeroHash]

\* line 177: if (maxSeq == 0)
MutIsIdleAlways(ms) == TRUE
IsIdle(ms) == ms = 0

\* lines 199-203: else if (maxSeq < seq) maxSeq = seq;
MutRaiseOverwrite(ms, s) == s
MutRaiseLowers(ms, s) == IF s < ms THEN s ELSE ms
Raise(ms, s) == IF ms < s THEN s ELSE ms

\* line 197: while (maxSeq != seq)
MutLoopAgainNever(ms, s) == FALSE
MutLoopAgainAlways(ms, s) == TRUE
LoopAgain(ms, s) == ms # s

\* The store reports a missing node on thread t; also a reentrant report made
\* from inside getHashBySeq / acquire of an activation of the same thread.
Call(t, s) ==
    /\ \/ Depth(t) = 0
       \/ /\ Depth(t) > 0
          /\ Depth(t) < MaxDepth
          /\ Top(t).pc \in {"lookup", "acquire"}
    /\ stack' = [stack EXCEPT ![t] = Append(@, Frame(s))]
    /\ UNCHANGED <<maxSeq, maxSeqLock, notified, lastAcquire, loopStat>> /\ UNCHANGED <<envVars, lifeVars, ledgerVars>>

\* line 175: std::unique_lock <std::mutex> lock (maxSeqLock);
Lock(t) ==
    /\ Depth(t) > 0
    /\ Top(t).pc = "lock"
    /\ maxSeqLock = 0
    /\ maxSeqLock' = t
    /\ stack' = SetTop(t, [Top(t) EXCEPT !.pc = "test"])
    /\ UNCHANGED <<maxSeq, notified, lastAcquire, loopStat>> /\ UNCHANGED <<envVars, lifeVars, ledgerVars>>

\* lines 177-179 and 199-203, under the lock
Test(t) ==
    /\ Depth(t) > 0
    /\ Top(t).pc = "test"
    /\ notified' = notified \cup {Top(t).seq}
    /\ IF IsIdle(maxSeq)
       THEN /\ maxSeq' = Top(t).seq
            /\ stack' = SetTop(t, [Top(t) EXCEPT !.pc = "loopTop", !.own = TRUE])
            /\ loopStat' = IF loopStat.on THEN LoopStatZero ELSE loopStat
       ELSE /\ maxSeq' = Raise(maxSeq, Top(t).seq)
            /\ stack' = SetTop(t, [Top(t) EXCEPT !.pc = "ret"])
            /\ loopStat' = [loopStat EXCEPT !.raised =
                                IF loopStat.on /\ Raise(maxSeq, Top(t).seq) # maxSeq
                                THEN @ + 1 ELSE @]
    /\ UNCHANGED <<maxSeqLock, lastAcquire>> /\ UNCHANGED <<envVars, lifeVars, ledgerVars>>

\* lines 184-186: seq = maxSeq; lock.unlock();
MutLoopTopKeepsLock(t) ==
    /\ Depth(t) > 0
    /\ Top(t).pc = "loopTop"
    /\ stack' = SetTop(t, [Top(t) EXCEPT !.pc = "lookup", !.seq = maxSeq])
    /\ loopStat' = [loopStat EXCEPT !.iters = IF loopStat.on THEN @ + 1 ELSE @]
    /\ UNCHANGED <<maxSeq, maxSeqLock, notified, lastAcquire>>
    /\ UNCHANGED <<envVars, lifeVars, ledgerVars>>
LoopTop(t) ==
    /\ Depth(t) > 0
    /\ Top(t).pc = "loopTop"
    /\ maxSeqLock' = 0
    /\ stack' = SetTop(t, [Top(t) EXCEPT !.pc = "lookup", !.seq = maxSeq])
    /\ loopStat' = [loopStat EXCEPT !.iters = IF loopStat.on THEN @ + 1 ELSE @]
    /\ UNCHANGED <<maxSeq, notified, lastAcquire>> /\ UNCHANGED <<envVars, lifeVars, ledgerVars>>

\* lines 189-191: hash = getHashBySeq (seq); if (hash.isNonZero())
MutLookupAcquiresZero(t) ==
    /\ Depth(t) > 0
    /\ Top(t).pc = "lookup"
    /\ \E h \in Hashes \cup {ZeroHash} :
          stack' = SetTop(t, [Top(t) EXCEPT
                        !.pc = "acquire", !.last = Top(t).seq, !.hash = h])
    /\ UNCHANGED <<maxSeq, maxSeqLock, notified, lastAcquire, loopStat>> /\ UNCHANGED <<envVars, lifeVars, ledgerVars>>
Lookup(t) ==
    /\ Depth(t) > 0
    /\ Top(t).pc = "lookup"
    /\ \E h \in Hashes \cup {ZeroHash} :
          stack' = SetTop(t, [Top(t) EXCEPT
                        !.pc = IF h # ZeroHash THEN "acquire" ELSE "relock",
                        !.last = Top(t).seq,
                        !.hash = h])
    /\ UNCHANGED <<maxSeq, maxSeqLock, notified, lastAcquire, loopStat>> /\ UNCHANGED <<envVars, lifeVars, ledgerVars>>

\* lines 192-193: getInboundLedgers().acquire (hash, seq, fcGENERIC);
Acquire(t) ==
    /\ Depth(t) > 0
    /\ Top(t).pc = "acquire"
    /\ lastAcquire' = <<Top(t).hash, Top(t).seq>>
    /\ stack' = SetTop(t, [Top(t) EXCEPT !.pc = "relock"])
    /\ UNCHANGED <<maxSeq, maxSeqLock, notified, loopStat>> /\ UNCHANGED <<envVars, lifeVars, ledgerVars>>

\* line 195: lock.lock();
Relock(t) ==
    /\ Depth(t) > 0
    /\ Top(t).pc = "relock"
    /\ maxSeqLock = 0
    /\ maxSeqLock' = t
    /\ stack' = SetTop(t, [Top(t) EXCEPT !.pc = "while"])
    /\ UNCHANGED <<maxSeq, notified, lastAcquire, loopStat>> /\ UNCHANGED <<envVars, lifeVars, ledgerVars>>

\* line 197: while (maxSeq != seq);  nothing follows the loop
While(t) ==
    /\ Depth(t) > 0
    /\ Top(t).pc = "while"
    /\ stack' = SetTop(t, [Top(t) EXCEPT
                  !.pc = IF LoopAgain(maxSeq, Top(t).seq) THEN "loopTop" ELSE "ret"])
    /\ UNCHANGED <<maxSeq, maxSeqLock, notified, lastAcquire, loopStat>> /\ UNCHANGED <<envVars, lifeVars, ledgerVars>>

\* line 204: return; the unique_lock's destructor releases the mutex
Ret(t) ==
    /\ Depth(t) > 0
    /\ Top(t).pc = "ret"
    /\ maxSeqLock' = IF maxSeqLock = t THEN 0 ELSE maxSeqLock
    /\ stack' = [stack EXCEPT ![t] = SubSeq(@, 1, Len(@) - 1)]
    /\ UNCHANGED <<maxSeq, notified, lastAcquire, loopStat>> /\ UNCHANGED <<envVars, lifeVars, ledgerVars>>

\* ------------------------------------------------ missing_node(uint256 const&)

\* line 208: if (hash.isNonZero())
MutHashAcquiresAlways(h) == TRUE
HashAcquires(h) == h # ZeroHash

\* lines 206-217: the store reports a missing node by the hash of its ledger,
\* on any thread and at any time: acquire (hash, 0, fcGENERIC) for a hash that
\* is not zero, nothing else
MissingNodeHash(h) ==
    /\ hashCall' = [called |-> TRUE, hash |-> h,
                    request |-> IF HashAcquires(h) THEN <<h, 0>> ELSE <<>>]
    /\ lastAcquire' = IF HashAcquires(h) THEN <<h, 0>> ELSE lastAcquire
    /\ UNCHANGED <<maxSeq, maxSeqLock, stack, notified, loopStat>>
    /\ UNCHANGED <<cfg, health, spaceSeen, lifeVars, ledgerVars>>

\* ------------------------------------------------------- application state

StartUps == {"FRESH", "DUMP", "LOAD", "LOAD_FILE", "REPLAY", "NETWORK", "NORMAL"}
NoExit == <<>>
\* values of timeKeeper().closeTime() and of stored close times
CloseTimes == {1, 2}
LedgerSeqs == {1, 2}
NonZeroHash == 1
\* a ledger: header fields, the hash recomputed from them, and what
\* walkLedger and assertSane answer for it
Ledgers ==
    {l \in [seq : LedgerSeqs, hash : Hashes, parent : Hashes \cup {ZeroHash},
             accountHash : {ZeroHash, NonZeroHash}, walk : BOOLEAN,
             sane : BOOLEAN, closeTime : CloseTimes] : l.closeTime = l.seq}
NoLedger ==
    [seq |-> 0, hash |-> ZeroHash, parent |-> ZeroHash, accountHash |-> ZeroHash,
     walk |-> FALSE, sane |-> FALSE, closeTime |-> 0]
NoReplay == [prevLedger |-> NoLedger, closeTime |-> 0, txns |-> <<>>]
DefaultLedgerID == [kind |-> "empty", val |-> 0]
Workers == 1..NumWorkers
MiB == 1024 * 1024

\* line 893: the free-space floor, in bytes
SpaceFloor == 512 * 1024 * 1024
Spaces == {SpaceFloor - 1, SpaceFloor, SpaceFloor + 1, 511 * MiB, 513 * MiB}

\* the process is running: exitWithCode was not called and run() has not returned
Alive == mainPc \notin {"exited", "done"}

NoHealth == [called |-> FALSE]
NoHashCall == [called |-> FALSE]
\* no free space recorded; recording, no firing yet
NoSpace == [on |-> FALSE, space |-> <<>>]
SpaceWatch == [on |-> TRUE, space |-> <<>>]
NoFile == [status |-> "none", seq |-> 0, entries |-> <<>>]
NoLoad ==
    [result |-> "none", via |-> "none", target |-> ZeroHash, raw |-> NoLedger,
     found |-> NoLedger, loadLedger |-> NoLedger, replayLedger |-> NoLedger,
     cause |-> "none", file |-> NoFile, state |-> {}, warnings |-> <<>>,
     replayData |-> NoReplay, txPos |-> 0, checkedLocal |-> FALSE]

\* a worker that runs no doSweep; done lists the eviction calls made so far
NoSweep == [step |-> 0, low |-> FALSE, done |-> <<>>]

\* the state right after ApplicationImp's constructor
AppInit ==
    /\ health = NoHealth
    /\ hashCall = NoHashCall
    /\ mainPc = "setup"
    /\ exitCode = NoExit
    /\ exitSite = "none"
    /\ life = "Constructed"
    /\ m_stop = FALSE
    /\ stopIdx = 0
    /\ stopLog = <<>>
    /\ shutdownRuns = 0
    /\ stopRequested = FALSE
    /\ extStops = 0
    /\ sigWait = FALSE
    /\ sigSeen = 0
    /\ sigPending = 0
    /\ sigStops = 0
    /\ sweepTimer = "off"
    /\ entropyTimer = "off"
    /\ firings = 0
    /\ entropyAdds = FALSE
    /\ sweepJobs = <<>>
    /\ sweep = [w \in Workers |-> NoSweep]
    /\ probe = "idle"
    /\ resolver = "idle"
    /\ deadlockDetector = FALSE
    /\ lcl = NoLedger
    /\ openLedger = NoLedger
    /\ storedLedgers = {}
    /\ lastCloseTime = 0
    /\ needNetLedger = FALSE
    /\ bootLog = <<>>
    /\ load = NoLoad
    /\ replayPkg = NoReplay
    /\ txMap = <<>>
    /\ sigGoodOnly = {}
    /\ openTxs = <<>>

\* lines 868-874: exitWithCode
ExitWithCode(code) ==
    /\ mainPc' = "exited"
    /\ exitCode' = <<code>>

\* the calls of exitWithCode in setup() and updateTables, each named by the
\* step that failed (or, for the dump, ended), and the code each passes
ExitSites == {"initSqliteDbs", "updateTables", "Setup", "loadOldLedger", "dump"}
ExitCodeAt(site) ==
    IF site = "initSqliteDbs" THEN 3
    ELSE IF site = "updateTables" THEN 1
    ELSE IF site = "Setup" THEN 3
    ELSE IF site = "loadOldLedger" THEN 0 - 1
    ELSE 0
ExitAt(site) ==
    /\ ExitWithCode(ExitCodeAt(site))
    /\ exitSite' = site

MNInit ==
    /\ maxSeq = 0
    /\ maxSeqLock = 0
    /\ stack = [t \in Threads |-> <<>>]
    /\ notified = {}
    /\ lastAcquire = <<ZeroHash, 0>>
    /\ loopStat = NoLoopStat
    /\ spaceSeen = NoSpace
    /\ cfg = [startUp |-> "FRESH", standalone |-> TRUE, ledgerID |-> DefaultLedgerID]
    /\ txStore = {<<>>}
    /\ AppInit

MNNext ==
    \E t \in Threads :
        \/ \E s \in Seqs : Call(t, s)
        \/ Lock(t)
        \/ Test(t)
        \/ LoopTop(t)
        \/ Lookup(t)
        \/ Acquire(t)
        \/ Relock(t)
        \/ While(t)
        \/ Ret(t)

SpecMN == MNInit /\ [][MNNext]_vars

\* the statements of missing_node a thread executes once it has been called
Step(t) ==
    \/ Lock(t)
    \/ Test(t)
    \/ LoopTop(t)
    \/ Lookup(t)
    \/ Acquire(t)
    \/ Relock(t)
    \/ While(t)
    \/ Ret(t)

\* the sequence numbers of the notifications made and not yet examined
Pending == {stack[t][i].seq : <<t, i>> \in
               {x \in Threads \X (1..MaxDepth) :
                   /\ x[2] <= Len(stack[x[1]])
                   /\ stack[x[1]][x[2]].pc \in {"lock", "test"}}}

\* finitely many notifications: every sequence number is reported once
MNFinNext ==
    \E t \in Threads :
        \/ \E s \in Seqs \ (notified \cup Pending) : Call(t, s)
        \/ Step(t)

\* the same state as MNInit, with the iterations and raises counted
MNFinInit ==
    /\ maxSeq = 0
    /\ maxSeqLock = 0
    /\ stack = [t \in Threads |-> <<>>]
    /\ notified = {}
    /\ lastAcquire = <<ZeroHash, 0>>
    /\ loopStat = LoopStatZero
    /\ spaceSeen = NoSpace
    /\ cfg = [startUp |-> "FRESH", standalone |-> TRUE, ledgerID |-> DefaultLedgerID]
    /\ txStore = {<<>>}
    /\ AppInit

\* some thread that is inside missing_node keeps running
SpecMNFin == MNFinInit /\ [][MNFinNext]_vars /\ WF_vars(\E t \in Threads : Step(t))

\* std::uint32_t seq: the store may also report sequence number 0
Seqs0 == 0..MaxSeq

MN0Next ==
    \E t \in Threads :
        \/ \E s \in Seqs0 : Call(t, s)
        \/ Lock(t)
        \/ Test(t)
        \/ LoopTop(t)
        \/ Lookup(t)
        \/ Acquire(t)
        \/ Relock(t)
        \/ While(t)
        \/ Ret(t)

SpecMN0 == MNInit /\ [][MN0Next]_vars

\* the thread on which the store reports missing sequence numbers while
\* reports by hash arrive
SeqThread == 1

MNHashNext ==
    \/ \E s \in Seqs : Call(SeqThread, s)
    \/ Step(SeqThread)
    \/ \E h \in Hashes \cup {ZeroHash} : MissingNodeHash(h)

SpecMNHash == MNInit /\ [][MNHashNext]_vars

\* ------------------------------------------------------------ signalStop

\* lines 1204-1210: m_stop.signal()
MutSignalStopToggle ==
    /\ m_stop' = ~m_stop
    /\ stopRequested' = TRUE
MutSignalStopNeedsWaiter ==
    /\ m_stop' = (m_stop \/ mainPc = "wait")
    /\ stopRequested' = TRUE
SignalStop ==
    /\ m_stop' = TRUE
    /\ stopRequested' = TRUE

\* an explicit stop request made from any thread
SignalStopCall ==
    /\ Alive
    /\ extStops < MaxStopCalls
    /\ extStops' = extStops + 1
    /\ SignalStop
    /\ UNCHANGED <<sigWait, sigHist, mainVars, stopVars, timerVars, jobVars>>
    /\ UNCHANGED <<mnVars, envVars, ledgerVars>>

\* lines 781-798: the handler given to m_signals.async_wait, run with the
\* outcome ec of the wait: a SIGINT that arrives now or was queued ("none"),
\* a cancelled wait, or another error.  The handler does not wait again.
Signalled(ec) ==
    /\ Alive
    /\ sigWait
    /\ (ec = "none") => (sigPending > 0 \/ sigSeen < MaxSignals)
    /\ sigWait' = FALSE
    /\ IF ec = "aborted"
       THEN UNCHANGED <<m_stop, stopRequested, sigHist>>
       ELSE IF ec # "none"
            THEN UNCHANGED <<m_stop, stopRequested, sigHist>>
            ELSE /\ SignalStop
                 /\ sigStops' = sigStops + 1
                 /\ IF sigPending > 0
                    THEN sigPending' = sigPending - 1 /\ UNCHANGED sigSeen
                    ELSE sigSeen' = sigSeen + 1 /\ UNCHANGED sigPending
    /\ UNCHANGED <<extStops, mainVars, stopVars, timerVars, jobVars>>
    /\ UNCHANGED <<mnVars, envVars, ledgerVars>>

\* line 946: SIGINT is registered with m_signals; one that arrives while no
\* handler waits is queued by the signal_set for the next async_wait
RaiseSignal ==
    /\ Alive
    /\ mainPc # "setup"
    /\ ~sigWait
    /\ sigSeen < MaxSignals
    /\ sigSeen' = sigSeen + 1
    /\ sigPending' = sigPending + 1
    /\ UNCHANGED <<m_stop, stopRequested, extStops, sigWait, sigStops>>
    /\ UNCHANGED <<mainVars, stopVars, timerVars, jobVars>>
    /\ UNCHANGED <<mnVars, envVars, ledgerVars>>

\* ------------------------------------------------------- timers and sweep

\* line 893: if (space.available < (512 * 1024 * 1024))
MutBelowFloorInclusive(space) == space <= SpaceFloor
BelowFloor(space) == space < SpaceFloor

\* lines 903-918: the eviction calls of doSweep, in order
MutSweepStepsSwapped ==
    <<"txMaster", "fullbelow", "nodeStore", "ledgerMaster",
      "tempNodeCache", "validations", "inboundLedgers",
      "acceptedLedgerCache", "treecache", "cachedSLEs">>
SweepSteps == <<"fullbelow", "txMaster", "nodeStore", "ledgerMaster",
                "tempNodeCache", "validations", "inboundLedgers",
                "acceptedLedgerCache", "treecache", "cachedSLEs">>

\* beast::DeadlineTimer::setExpiration arms the timer for one firing
MutOneShotStaysArmed(t) == t
MutOneShotRearms(t) == "interval"
OneShot(t) == "off"

\* lines 884-900: onDeadlineTimer (m_sweepTimer)
SweepTimerFire(space) ==
    /\ Alive
    /\ sweepTimer # "off"
    /\ firings < MaxFirings
    /\ firings' = firings + 1
    /\ sweepTimer' = OneShot(sweepTimer)
    /\ IF BelowFloor(space)
       THEN SignalStop
       ELSE UNCHANGED <<m_stop, stopRequested>>
    /\ sweepJobs' = Append(sweepJobs, BelowFloor(space))
    /\ spaceSeen' = IF spaceSeen.on THEN [spaceSeen EXCEPT !.space = <<space>>]
                    ELSE spaceSeen
    /\ UNCHANGED <<entropyTimer, entropyAdds, sweep, extStops, sigHist, sigWait>>
    /\ UNCHANGED <<mainVars, stopVars, mnVars, cfg, health, hashCall, ledgerVars>>

\* lines 878-882: onDeadlineTimer (m_entropyTimer)
EntropyTimerFire ==
    /\ Alive
    /\ entropyTimer = "recurring"
    /\ entropyAdds' = TRUE
    /\ UNCHANGED <<sweepTimer, entropyTimer, firings, jobVars, sigVars>>
    /\ UNCHANGED <<mainVars, stopVars, mnVars, envVars, ledgerVars>>

\* line 899: the job queue hands the queued job to a worker
SweepBegin(w) ==
    /\ Alive
    /\ sweepJobs # <<>>
    /\ sweep[w].step = 0
    /\ sweep' = [sweep EXCEPT ![w] = [step |-> 1, low |-> Head(sweepJobs),
                                      done |-> <<>>]]
    /\ sweepJobs' = Tail(sweepJobs)
    /\ UNCHANGED <<timerVars, sigVars, mainVars, stopVars, mnVars, envVars, ledgerVars>>

\* lines 909-918: one eviction call of doSweep
SweepStep(w) ==
    /\ Alive
    /\ sweep[w].step \in 1..Len(SweepSteps)
    /\ sweep' = [sweep EXCEPT ![w].step = @ + 1,
                              ![w].done = Append(@, SweepSteps[sweep[w].step])]
    /\ UNCHANGED <<sweepJobs, timerVars, sigVars, mainVars, stopVars>>
    /\ UNCHANGED <<mnVars, envVars, ledgerVars>>

\* lines 909-918: an eviction call throws.  doSweep has no handler: the
\* exception leaves it, the calls after it and line 921 are skipped, and it
\* reaches the job-queue worker, which either ends the process
\* (std::terminate) or goes on with the next job
SweepThrow(w) ==
    /\ Alive
    /\ sweep[w].step \in 1..Len(SweepSteps)
    /\ sweep' = [sweep EXCEPT ![w].step = 0,
                              ![w].done = Append(@, SweepSteps[sweep[w].step])]
    /\ \E outcome \in {"terminate", "continue"} :
          mainPc' = IF outcome = "terminate" THEN "exited" ELSE mainPc
    /\ UNCHANGED <<exitCode, exitSite, sweepJobs, timerVars, sigVars, stopVars>>
    /\ UNCHANGED <<mnVars, envVars, ledgerVars>>

\* line 921: m_sweepTimer.setExpiration (getSize (siSweepInterval))
SweepRearm(w) ==
    /\ Alive
    /\ sweep[w].step = Len(SweepSteps) + 1
    /\ sweepTimer' = "interval"
    /\ sweep' = [sweep EXCEPT ![w] = NoSweep]
    /\ UNCHANGED <<entropyTimer, firings, entropyAdds, sweepJobs, sigVars>>
    /\ UNCHANGED <<mainVars, stopVars, mnVars, envVars, ledgerVars>>

\* --------------------------------------------------------------- setup()

\* lines 1006-1084: the branch of setup() chosen by START_UP
StrategyPc(startUp) ==
    IF startUp = "FRESH" THEN "genesis"
    ELSE IF startUp = "DUMP" THEN "dump"
    ELSE IF startUp \in {"LOAD", "LOAD_FILE", "REPLAY"} THEN "load"
    ELSE IF startUp = "NETWORK" THEN "network"
    ELSE "genesis"

\* lines 940-1006: signal wait, databases, updateTables, the Setup signal
SetupBegin ==
    /\ mainPc = "setup"
    /\ sigWait' = TRUE
    /\ \E dbOK \in BOOLEAN, nodeDb \in BOOLEAN, slotsOK \in BOOLEAN :
          IF ~dbOK THEN ExitAt("initSqliteDbs")
          ELSE IF ~cfg.standalone /\ ~nodeDb THEN ExitAt("updateTables")
          ELSE IF ~slotsOK THEN ExitAt("Setup")
          ELSE /\ mainPc' = StrategyPc(cfg.startUp)
               /\ UNCHANGED <<exitCode, exitSite, exitSite>>
    /\ UNCHANGED <<m_stop, stopRequested, extStops, sigHist>>
    /\ UNCHANGED <<stopVars, timerVars, jobVars, mnVars, envVars, ledgerVars>>

\* the ledger made by Ledger (open_ledger, prev, closeTime)
ChildHash(h) == (h % NumHashes) + 1
Successor(prev, ct) ==
    [seq |-> prev.seq + 1, hash |-> ChildHash(prev.hash), parent |-> prev.hash,
     accountHash |-> prev.accountHash, walk |-> prev.walk, sane |-> prev.sane,
     closeTime |-> ct]

\* the ledger made by Ledger (create_genesis, ...)
GenesisLedger ==
    [seq |-> 1, hash |-> NonZeroHash, parent |-> ZeroHash,
     accountHash |-> NonZeroHash, walk |-> TRUE, sane |-> TRUE, closeTime |-> 0]

\* lines 1073-1077: NETWORK: needNetworkLedger unless stand-alone
MutNeedNetworkLedgerNever ==
    /\ mainPc = "network"
    /\ mainPc' = "genesis"
    /\ UNCHANGED <<exitCode, exitSite, lcl, openLedger, storedLedgers, lastCloseTime>>
    /\ UNCHANGED <<needNetLedger, bootLog, load, replayVars>>
    /\ UNCHANGED <<stopVars, sigVars, timerVars, jobVars, mnVars, envVars>>
NeedNetworkLedger ==
    /\ mainPc = "network"
    /\ needNetLedger' = (needNetLedger \/ ~cfg.standalone)
    /\ bootLog' = IF cfg.standalone THEN bootLog
                  ELSE Append(bootLog, "needNetworkLedger")
    /\ mainPc' = "genesis"
    /\ UNCHANGED <<exitCode, exitSite, lcl, openLedger, storedLedgers, lastCloseTime>>
    /\ UNCHANGED <<load, replayVars, stopVars, sigVars, timerVars, jobVars, mnVars, envVars>>

\* lines 1221-1238: startGenesisLedger; ct is timeKeeper().closeTime()
StartGenesisLedger(ct) ==
    /\ mainPc = "genesis"
    /\ storedLedgers' = storedLedgers \cup {GenesisLedger}
    /\ lastCloseTime' = Successor(GenesisLedger, ct).closeTime
    /\ openLedger' = Successor(GenesisLedger, ct)
    /\ lcl' = Successor(GenesisLedger, ct)
    /\ bootLog' = Append(bootLog, "startGenesisLedger")
    /\ mainPc' = "setupRest"
    /\ UNCHANGED <<exitCode, exitSite, needNetLedger, load, replayVars>>
    /\ UNCHANGED <<stopVars, sigVars, timerVars, jobVars, mnVars, envVars>>

\* lines 1086-1170: the rest of setup()
SetupFinish ==
    /\ mainPc = "setupRest"
    /\ mainPc' = "prepare"
    /\ UNCHANGED <<exitCode, exitSite, stopVars, sigVars, timerVars, jobVars>>
    /\ UNCHANGED <<mnVars, envVars, ledgerVars>>

\* ------------------------------------------------------- loadOldLedger

\* persisted ledger index (Ledger.cpp): what the lookups may hand back.  A row
\* is found by its stored key; the ledger rebuilt from it carries the hash
\* recomputed from its fields.
LoadLedgerHelperResults == (Ledgers \cup {NoLedger}) \X Hashes
LoadByHashResults(h) == Ledgers \cup {NoLedger}
LoadByIndexResults(n) == {l \in Ledgers : l.seq = n} \cup {NoLedger}
\* InboundLedger::checkLocal / getLedger: the ledger built from the node store
CheckLocalResults(h) == {l \in Ledgers : l.hash = h} \cup {NoLedger}
\* ---- the JSON file of LOAD_FILE
\* an entry of the state array: whether it has the "index" member, the value
\* of that member (0: all zeroes), and whether STParsedJSONObject can parse
\* the remaining members
EntryIndexes == {0, 1, 2}
FileEntries ==
    {e \in [hasIndex : BOOLEAN, index : EntryIndexes, parses : BOOLEAN] :
        ~e.hasIndex => (e.index = 0)}
\* what the file is: not openable, not JSON, no array of state nodes, a
\* total_coins that is not a number, or a ledger dump
FileStatuses == {"unopenable", "unparseable", "notarray", "badtotal", "ok"}
Files ==
    [status : FileStatuses, seq : LedgerSeqs,
     entries : UNION {[1..n -> FileEntries] : n \in 0..MaxEntries}]

\* lines 1372-1373: uIndex.SetHex (entry[jss::index].asString ()); a missing
\* member reads as the empty string, which leaves uIndex zero
UIndex(e) == IF e.hasIndex THEN e.index ELSE 0

\* lines 1379-1391: one entry.  addSLE refuses an index already in the state
\* map; every entry not added leaves a warning
MutAddEntryAlways(acc, e, pos) ==
    [state |-> acc.state \cup {[index |-> UIndex(e), pos |-> pos]},
     warnings |-> acc.warnings]
AddEntry(acc, e, pos) ==
    IF e.parses /\ UIndex(e) # 0
    THEN IF \E x \in acc.state : x.index = UIndex(e)
         THEN [state |-> acc.state,
               warnings |-> Append(acc.warnings,
                                   [text |-> "Couldn't add serialized ledger",
                                    pos |-> pos])]
         ELSE [state |-> acc.state \cup {[index |-> UIndex(e), pos |-> pos]},
               warnings |-> acc.warnings]
    ELSE [state |-> acc.state,
          warnings |-> Append(acc.warnings,
                              [text |-> "Invalid entry in ledger", pos |-> pos])]

\* lines 1368-1392: the loop over the entries, first to last
RECURSIVE ReadEntries(_, _)
ReadEntries(entries, n) ==
    IF n = 0 THEN [state |-> {}, warnings |-> <<>>]
    ELSE AddEntry(ReadEntries(entries, n - 1), entries[n], n)

\* lines 1364-1366, 1394-1399: the ledger made from the file: no parent, the
\* account hash is that of the state map (zero when the map is empty), and
\* setAccepted leaves it consistent with its maps, all nodes flushed
FileLedger(f, h) ==
    LET st == ReadEntries(f.entries, Len(f.entries)).state
    IN  [seq |-> f.seq, hash |-> h, parent |-> ZeroHash,
         accountHash |-> IF st = {} THEN ZeroHash ELSE NonZeroHash,
         walk |-> TRUE, sane |-> (st # {}), closeTime |-> f.seq]

\* lines 1240-1284: getLastFullLedger
GetLastFullLedger(l, storedHash, missing) ==
    IF missing THEN NoLedger
    ELSE IF l = NoLedger THEN NoLedger
    ELSE IF l.hash # storedHash THEN NoLedger
    ELSE l

\* lines 1413-1422 and 1445-1456: loadByHash, else InboundLedger::checkLocal
ByHashOrLocal(h) ==
    (LoadByHashResults(h) \ {NoLedger}) \cup CheckLocalResults(h)

\* lines 1429-1434, 1537-1546: return false
LoadFails(ld, why) ==
    /\ load' = [ld EXCEPT !.result = "fail", !.cause = why]
    /\ mainPc' = "loadReturn"

\* lines 1066-1068: loadOldLedger (START_LEDGER, replay, isFileName)
LoadCall ==
    IF cfg.startUp = "REPLAY" THEN "loadOldLedger replay"
    ELSE IF cfg.startUp = "LOAD_FILE" THEN "loadOldLedger file"
    ELSE "loadOldLedger"

\* lines 1293-1434: find the ledger named by ledgerID; raw is the ledger as the
\* persisted index handed it back, l the one assigned to loadLedger, local
\* tells whether InboundLedger::checkLocal was asked
LoadResolved(via, target, raw, l, thrown, local) ==
    LET ld == [load EXCEPT !.via = via, !.target = target, !.raw = raw,
                           !.found = l, !.loadLedger = l,
                           !.checkedLocal = local]
    IN  /\ IF thrown # "none" THEN LoadFails([ld EXCEPT !.raw = NoLedger,
                                                   !.found = NoLedger,
                                                   !.loadLedger = NoLedger], thrown)
           ELSE IF l = NoLedger THEN LoadFails(ld, "No Ledger found")
           ELSE /\ load' = ld
                /\ mainPc' = IF cfg.startUp = "REPLAY" THEN "loadParent" ELSE "loadGate"
        /\ bootLog' = Append(bootLog, LoadCall)
        /\ UNCHANGED <<exitCode, exitSite, lcl, openLedger, storedLedgers, lastCloseTime,
                       needNetLedger, replayVars>>
        /\ UNCHANGED <<stopVars, sigVars, timerVars, jobVars, mnVars, envVars>>

\* lines 1293-1403: the ledger is read from the file named by ledgerID
LoadFile(f, h) ==
          LET l == IF f.status = "ok" THEN FileLedger(f, h) ELSE NoLedger
              r == IF f.status = "ok" THEN ReadEntries(f.entries, Len(f.entries))
                   ELSE [state |-> {}, warnings |-> <<>>]
              ld == [load EXCEPT !.via = "file", !.file = f, !.raw = l,
                                 !.found = l, !.loadLedger = l,
                                 !.state = r.state, !.warnings = r.warnings]
          IN  /\ IF f.status = "badtotal"
                 THEN LoadFails(ld, "badcast")
                 ELSE IF l = NoLedger THEN LoadFails(ld, "No Ledger found")
                 ELSE /\ load' = ld
                      /\ mainPc' = "loadGate"
              /\ bootLog' = Append(bootLog, LoadCall)
              /\ UNCHANGED <<exitCode, exitSite, lcl, openLedger, storedLedgers,
                             lastCloseTime, needNetLedger, replayVars>>
              /\ UNCHANGED <<stopVars, sigVars, timerVars, jobVars, mnVars, envVars>>

LoadFromFile ==
    /\ mainPc = "load"
    /\ cfg.startUp = "LOAD_FILE"
    /\ \E f \in Files, h \in Hashes : LoadFile(f, h)

\* ---- the JSON document of LOAD_FILE, as far as lines 1308-1358 look into it:
\* an object with the members "result", "ledger", "accountState" (an array or
\* something else), "ledger_index" and "close_time_resolution", each present
\* or not; an array; or any other value
Absent == [kind |-> "absent"]
NonObjects == {[kind |-> "array"], [kind |-> "scalar"]}
DocIndex == 2
DocResolution == 10
BodyShapes ==
    {<<"absent", <<>>, <<>>>>}
        \cup ({"array", "other"} \X {<<>>, <<DocIndex>>} \X {<<>>, <<DocResolution>>})
Obj(result, ledger, sh) ==
    [kind |-> "object", result |-> result, ledger |-> ledger,
     state |-> sh[1], index |-> sh[2], res |-> sh[3]]
Docs0 == NonObjects \cup {Obj(Absent, Absent, sh) : sh \in BodyShapes}
Docs1 ==
    NonObjects \cup {Obj(Absent, x[1], x[2]) :
                        x \in (Docs0 \cup {Absent}) \X BodyShapes}
Docs ==
    NonObjects \cup {Obj(x[1], x[2], x[3]) :
                        x \in (Docs1 \cup {Absent}) \X (Docs0 \cup {Absent})
                                 \X BodyShapes}

\* Json::Value::isMember for the two wrapper keys
HasResult(v) == v.kind = "object" /\ v.result # Absent
HasLedger(v) == v.kind = "object" /\ v.ledger # Absent
HasAccountState(v) == v.kind = "object" /\ v.state # "absent"

\* lines 1311-1315: accept a wrapped ledger
MutUnwrapLedgerFirst(doc) ==
    LET a == IF HasLedger(doc) THEN doc.ledger ELSE doc
    IN  IF HasResult(a) THEN a.result ELSE a
Unwrap(doc) ==
    LET a == IF HasResult(doc) THEN doc.result ELSE doc
    IN  IF HasLedger(a) THEN a.ledger ELSE a

\* lines 1318-1319: std::uint32_t seq = 1; closeTimeResolution = 30
DefaultSeq == 1
DefaultResolution == 30

\* lines 1311-1358: what the header of the document yields: whether the state
\* nodes are an array, the sequence number and the close time resolution
FileHeader(doc) ==
    LET b == Unwrap(doc)
    IN  IF HasAccountState(b)
        THEN [isArray |-> b.state = "array",
              seq |-> IF b.index # <<>> THEN b.index[1] ELSE DefaultSeq,
              resolution |-> IF b.res # <<>> THEN b.res[1] ELSE DefaultResolution]
        ELSE [isArray |-> b.kind = "array",
              seq |-> DefaultSeq,
              resolution |-> DefaultResolution]

\* the state arrays the documents carry: none, or one entry that can be added
DocEntries == {<<>>, <<[hasIndex |-> TRUE, index |-> 1, parses |-> TRUE]>>}

\* lines 1293-1403 for a file that opens and parses to the document doc
FileOfDoc(doc, entries) ==
    [status |-> IF FileHeader(doc).isArray THEN "ok" ELSE "notarray",
     seq |-> FileHeader(doc).seq,
     entries |-> IF FileHeader(doc).isArray THEN entries ELSE <<>>,
     doc |-> doc,
     resolution |-> FileHeader(doc).resolution]

LoadFromDoc ==
    /\ mainPc = "load"
    /\ cfg.startUp = "LOAD_FILE"
    /\ \E doc \in Docs, entries \in DocEntries, h \in Hashes :
          LoadFile(FileOfDoc(doc, entries), h)

LoadLatest ==
    /\ mainPc = "load"
    /\ cfg.startUp # "LOAD_FILE"
    /\ cfg.ledgerID.kind \in {"empty", "latest"}
    /\ \E r \in LoadLedgerHelperResults, missing \in BOOLEAN :
          LoadResolved("latest", r[2], IF missing THEN NoLedger ELSE r[1],
                       GetLastFullLedger(r[1], r[2], missing), "none", FALSE)

LoadByHash ==
    /\ mainPc = "load"
    /\ cfg.startUp # "LOAD_FILE"
    /\ cfg.ledgerID.kind = "hash"
    /\ \E stored \in LoadByHashResults(cfg.ledgerID.val),
          local \in CheckLocalResults(cfg.ledgerID.val),
          thrown \in {"none", "missing"} :
          LET l == IF stored # NoLedger THEN stored ELSE local
          IN  LoadResolved("hash", cfg.ledgerID.val, l, l, thrown,
                           stored = NoLedger)

LoadBySeq ==
    /\ mainPc = "load"
    /\ cfg.startUp # "LOAD_FILE"
    /\ cfg.ledgerID.kind \in {"number", "text"}
    /\ IF cfg.ledgerID.kind = "text"
       THEN LoadResolved("number", ZeroHash, NoLedger, NoLedger, "badcast", FALSE)
       ELSE \E p \in LoadByIndexResults(cfg.ledgerID.val),
               thrown \in {"none", "missing"} :
               LoadResolved("number", ZeroHash, p, p, thrown, FALSE)

\* lines 1436-1464: replay: the ledger found holds the transactions, load its parent
LoadParent ==
    /\ mainPc = "loadParent"
    /\ \E l \in ByHashOrLocal(load.loadLedger.parent),
          thrown \in {"none", "missing"} :
          LET ld == [load EXCEPT !.replayLedger = load.loadLedger,
                                 !.loadLedger = l]
          IN  IF thrown # "none"
              THEN LoadFails([ld EXCEPT !.loadLedger = NoLedger], thrown)
              ELSE IF ld.loadLedger = NoLedger
                   THEN LoadFails(ld, "Replay ledger missing/damaged")
                   ELSE /\ load' = ld
                        /\ mainPc' = "loadGate"
    /\ UNCHANGED <<exitCode, exitSite, lcl, openLedger, storedLedgers, lastCloseTime,
                   needNetLedger, bootLog, replayVars>>
    /\ UNCHANGED <<stopVars, sigVars, timerVars, jobVars, mnVars, envVars>>

\* lines 1470-1489: account hash non-zero, walkLedger, assertSane
MutPassesGateNoSane(l) == l.accountHash # ZeroHash /\ l.walk
PassesGate(l) == l.accountHash # ZeroHash /\ l.walk /\ l.sane

\* lines 1466-1499: the checks, then the ledger becomes the last closed ledger
\* and the open ledger is built on it.  The assert (false) before each return
\* false is compiled out (NDEBUG); with assertions on the process aborts there
\* and nothing is installed either.
\* the ledger the checks of lines 1470-1489 are made on
MutGatedLedgerDesignated == IF cfg.startUp = "REPLAY" THEN load.replayLedger ELSE load.loadLedger
GatedLedger == load.loadLedger

LoadGate ==
    /\ mainPc = "loadGate"
    /\ IF ~PassesGate(GatedLedger)
       THEN /\ LoadFails(load, IF GatedLedger.accountHash = ZeroHash
                               THEN "Ledger is empty."
                               ELSE IF ~GatedLedger.walk
                                    THEN "Ledger is missing nodes."
                                    ELSE "Ledger is not sane.")
            /\ UNCHANGED <<lcl, openLedger, lastCloseTime>>
       ELSE /\ lcl' = GatedLedger
            /\ lastCloseTime' = GatedLedger.closeTime
            /\ openLedger' = GatedLedger
            /\ IF cfg.startUp = "REPLAY"
               THEN /\ mainPc' = "loadReplay"
                    /\ UNCHANGED load
               ELSE /\ mainPc' = "loadReturn"
                    /\ load' = [load EXCEPT !.result = "ok"]
    /\ UNCHANGED <<exitCode, exitSite, storedLedgers, needNetLedger, bootLog, replayVars>>
    /\ UNCHANGED <<stopVars, sigVars, timerVars, jobVars, mnVars, envVars>>

\* line 1524: txns_.emplace (txIndex, tx): a std::map keeps its entries in
\* ascending key order and emplace leaves an entry already present alone
MutInsertByIndexAppend(q, x) == Append(q, x)
RECURSIVE InsertByIndex(_, _)
InsertByIndex(q, x) ==
    IF q = <<>> THEN <<x>>
    ELSE IF x.index = Head(q).index THEN q
    ELSE IF x.index < Head(q).index THEN <<x>> \o q
    ELSE <<Head(q)>> \o InsertByIndex(Tail(q), x)

\* the transaction indices (sfTransactionIndex) a ledger's metadata may carry
TxIndexes == {1, 2, 3}
\* the transaction maps of the ledgers that can be replayed: a transaction is
\* named by its place in the key order of the map
TxMaps == UNION {[1..n -> TxIndexes] : n \in 0..MaxTxs}

\* lines 1505-1510: the transaction map of the ledger to replay and the
\* LedgerReplay under construction
LoadReplay ==
    /\ mainPc = "loadReplay"
    /\ txMap' \in txStore
    /\ load' = [load EXCEPT !.replayData =
                                [prevLedger |-> load.replayLedger,
                                 closeTime |-> load.replayLedger.closeTime,
                                 txns |-> <<>>],
                            !.txPos = 1]
    /\ mainPc' = "loadReplayTx"
    /\ UNCHANGED <<exitCode, exitSite, lcl, openLedger, storedLedgers, lastCloseTime,
                   needNetLedger, bootLog, replayPkg, txStore, sigGoodOnly, openTxs>>
    /\ UNCHANGED <<stopVars, sigVars, timerVars, jobVars, mnVars, envVars>>

\* lines 1512-1532: one turn of the loop over the transaction map; txRead
\* throws SHAMapMissingNode when the transaction's node is not in the store
LoadReplayTx ==
    /\ mainPc = "loadReplayTx"
    /\ load.txPos <= Len(txMap)
    /\ \E missing \in BOOLEAN :
          IF missing
          THEN /\ LoadFails(load, "missing")
               /\ UNCHANGED <<sigGoodOnly, openTxs>>
          ELSE /\ sigGoodOnly' = sigGoodOnly \cup {load.txPos}
               /\ load' = [load EXCEPT
                              !.replayData.txns =
                                  InsertByIndex(@, [index |-> txMap[load.txPos],
                                                    tx |-> load.txPos]),
                              !.txPos = @ + 1]
               /\ openTxs' = Append(openTxs, load.txPos)
               /\ UNCHANGED mainPc
    /\ UNCHANGED <<exitCode, exitSite, lcl, openLedger, storedLedgers, lastCloseTime,
                   needNetLedger, bootLog, replayPkg, txStore, txMap>>
    /\ UNCHANGED <<stopVars, sigVars, timerVars, jobVars, mnVars, envVars>>

\* line 1534: m_ledgerMaster->takeReplay (std::move (replayData)); return true
TakeReplay ==
    /\ mainPc = "loadReplayTx"
    /\ load.txPos > Len(txMap)
    /\ replayPkg' = load.replayData
    /\ load' = [load EXCEPT !.result = "ok", !.replayData = NoReplay]
    /\ mainPc' = "loadReturn"
    /\ UNCHANGED <<exitCode, exitSite, lcl, openLedger, storedLedgers, lastCloseTime,
                   needNetLedger, bootLog, txStore, txMap, sigGoodOnly, openTxs>>
    /\ UNCHANGED <<stopVars, sigVars, timerVars, jobVars, mnVars, envVars>>

\* lines 1066-1071: setup() exits with -1 when loadOldLedger returned false
MutLoadReturnFallsBack ==
    /\ mainPc = "loadReturn"
    /\ mainPc' = IF load.result = "fail" THEN "genesis" ELSE "setupRest"
    /\ UNCHANGED <<exitCode, exitSite, exitSite>>
    /\ UNCHANGED <<stopVars, sigVars, timerVars, jobVars, mnVars, envVars, ledgerVars>>
LoadReturn ==
    /\ mainPc = "loadReturn"
    /\ IF load.result = "fail"
       THEN ExitAt("loadOldLedger")
       ELSE /\ mainPc' = "setupRest"
            /\ UNCHANGED <<exitCode, exitSite, exitSite>>
    /\ UNCHANGED <<stopVars, sigVars, timerVars, jobVars, mnVars, envVars, ledgerVars>>

\* what the node store holds for DUMP_INDEX: nothing, a transaction leaf, a
\* node that is not a leaf, or data SHAMapAbstractNode::make rejects
DumpNodes == {"absent", "transaction", "notleaf", "invalid"}

\* lines 1013-1059: DUMP: print the transaction, then exitWithCode (0).  The
\* "No such node" thrown for a node that is not a leaf is a string, which
\* catch (std::exception const&) does not catch: it leaves setup() and ends
\* the process without exitWithCode
MutDumpReturnsWhenAbsent ==
    /\ mainPc = "dump"
    /\ \E node \in DumpNodes :
          IF node = "absent"
          THEN /\ mainPc' = "genesis"
               /\ UNCHANGED <<exitCode, exitSite, exitSite>>
          ELSE ExitAt("dump")
    /\ bootLog' = Append(bootLog, "dump")
    /\ UNCHANGED <<lcl, openLedger, storedLedgers, lastCloseTime, needNetLedger,
                   load, replayVars>>
    /\ UNCHANGED <<stopVars, sigVars, timerVars, jobVars, mnVars, envVars>>
Dump ==
    /\ mainPc = "dump"
    /\ \E node \in DumpNodes :
          IF node = "notleaf"
          THEN /\ mainPc' = "exited"
               /\ UNCHANGED <<exitCode, exitSite, exitSite>>
          ELSE ExitAt("dump")
    /\ bootLog' = Append(bootLog, "dump")
    /\ UNCHANGED <<lcl, openLedger, storedLedgers, lastCloseTime, needNetLedger,
                   load, replayVars>>
    /\ UNCHANGED <<stopVars, sigVars, timerVars, jobVars, mnVars, envVars>>

LedgerIDs ==
    {[kind |-> k, val |-> 0] : k \in {"empty", "latest", "text"}}
        \cup {[kind |-> "hash", val |-> h] : h \in Hashes}
        \cup {[kind |-> "number", val |-> n] : n \in LedgerSeqs}

BootConfigs ==
    {c \in [startUp : StartUps, standalone : BOOLEAN, ledgerID : LedgerIDs] :
        /\ (c.startUp \notin {"LOAD", "REPLAY"}) => (c.ledgerID = DefaultLedgerID)
        /\ (c.startUp # "NETWORK") => c.standalone}

BootInit ==
    /\ maxSeq = 0
    /\ maxSeqLock = 0
    /\ stack = [t \in Threads |-> <<>>]
    /\ notified = {}
    /\ lastAcquire = <<ZeroHash, 0>>
    /\ loopStat = NoLoopStat
    /\ spaceSeen = NoSpace
    /\ cfg \in BootConfigs
    /\ txStore = {<<2, 1>>}
    /\ AppInit

BootNext ==
    \/ SetupBegin
    \/ NeedNetworkLedger
    \/ \E ct \in CloseTimes : StartGenesisLedger(ct)
    \/ Dump
    \/ LoadFromFile
    \/ LoadLatest
    \/ LoadByHash
    \/ LoadBySeq
    \/ LoadParent
    \/ LoadGate
    \/ LoadReplay
    \/ LoadReplayTx
    \/ TakeReplay
    \/ LoadReturn
    \/ SetupFinish

SpecBoot == BootInit /\ [][BootNext]_vars

\* a start with START_UP = LOAD_FILE, for every document
FileInit ==
    /\ maxSeq = 0
    /\ maxSeqLock = 0
    /\ stack = [t \in Threads |-> <<>>]
    /\ notified = {}
    /\ lastAcquire = <<ZeroHash, 0>>
    /\ loopStat = NoLoopStat
    /\ spaceSeen = NoSpace
    /\ cfg = [startUp |-> "LOAD_FILE", standalone |-> TRUE, ledgerID |-> DefaultLedgerID]
    /\ txStore = {<<>>}
    /\ AppInit

FileNext ==
    \/ SetupBegin
    \/ LoadFromDoc
    \/ LoadGate
    \/ LoadReturn
    \/ SetupFinish

SpecFile == FileInit /\ [][FileNext]_vars

\* replay of the ledger with sequence number 1, for every transaction map
ReplayInit ==
    /\ maxSeq = 0
    /\ maxSeqLock = 0
    /\ stack = [t \in Threads |-> <<>>]
    /\ notified = {}
    /\ lastAcquire = <<ZeroHash, 0>>
    /\ loopStat = NoLoopStat
    /\ spaceSeen = NoSpace
    /\ cfg = [startUp |-> "REPLAY", standalone |-> TRUE,
              ledgerID |-> [kind |-> "number", val |-> 1]]
    /\ txStore = TxMaps
    /\ AppInit

ReplayNext ==
    \/ SetupBegin
    \/ LoadBySeq
    \/ LoadParent
    \/ LoadGate
    \/ LoadReplay
    \/ LoadReplayTx
    \/ TakeReplay
    \/ LoadReturn
    \/ SetupFinish

SpecReplay == ReplayInit /\ [][ReplayNext]_vars

\* ------------------------------------------------------------ serverOkay

\* NetworkOPs::OperatingMode: omDISCONNECTED, omCONNECTED, omSYNCING,
\* omTRACKING, omFULL
OperatingModes == {0, 1, 2, 3, 4}
omSYNCING == 2

\* lines 1551-1590: serverOkay; reason is left as it was unless a check fails
MutServerOkayLoadFirst(elb, shutdown, needNet, mode, caughtUp, loadedLocal, blocked) ==
    IF ~elb THEN [ok |-> TRUE, reason |-> ""]
    ELSE IF loadedLocal THEN [ok |-> FALSE, reason |-> "Too much load"]
    ELSE IF shutdown THEN [ok |-> FALSE, reason |-> "Server is shutting down"]
    ELSE IF needNet THEN [ok |-> FALSE, reason |-> "Not synchronized with network yet"]
    ELSE IF mode < omSYNCING THEN [ok |-> FALSE, reason |-> "Not synchronized with network"]
    ELSE IF ~caughtUp THEN [ok |-> FALSE, reason |-> "isCaughtUp"]
    ELSE IF blocked THEN [ok |-> FALSE, reason |-> "Server version too old"]
    ELSE [ok |-> TRUE, reason |-> ""]
MutServerOkayIgnoresElb(elb, shutdown, needNet, mode, caughtUp, loadedLocal, blocked) ==
    IF shutdown THEN [ok |-> FALSE, reason |-> "Server is shutting down"]
    ELSE IF needNet THEN [ok |-> FALSE, reason |-> "Not synchronized with network yet"]
    ELSE IF mode < omSYNCING THEN [ok |-> FALSE, reason |-> "Not synchronized with network"]
    ELSE IF ~caughtUp THEN [ok |-> FALSE, reason |-> "isCaughtUp"]
    ELSE IF loadedLocal THEN [ok |-> FALSE, reason |-> "Too much load"]
    ELSE IF blocked THEN [ok |-> FALSE, reason |-> "Server version too old"]
    ELSE [ok |-> TRUE, reason |-> ""]
ServerOkay(elb, shutdown, needNet, mode, caughtUp, loadedLocal, blocked) ==
    IF ~elb THEN [ok |-> TRUE, reason |-> ""]
    ELSE IF shutdown THEN [ok |-> FALSE, reason |-> "Server is shutting down"]
    ELSE IF needNet THEN [ok |-> FALSE, reason |-> "Not synchronized with network yet"]
    ELSE IF mode < omSYNCING THEN [ok |-> FALSE, reason |-> "Not synchronized with network"]
    ELSE IF ~caughtUp THEN [ok |-> FALSE, reason |-> "isCaughtUp"]
    ELSE IF loadedLocal THEN [ok |-> FALSE, reason |-> "Too much load"]
    ELSE IF blocked THEN [ok |-> FALSE, reason |-> "Server version too old"]
    ELSE [ok |-> TRUE, reason |-> ""]

\* lines 1212-1217: isShutdown () is isStopped ()
IsShutdown == life = "Stopped"

\* a health check asks serverOkay; what the collaborators answer is drawn
ServerOkayCall ==
    /\ mainPc # "exited"
    /\ \E elb \in BOOLEAN, mode \in OperatingModes, caughtUp \in BOOLEAN,
          loadedLocal \in BOOLEAN, blocked \in BOOLEAN :
          health' = [called |-> TRUE, elb |-> elb, shutdown |-> IsShutdown,
                     needNet |-> needNetLedger, mode |-> mode,
                     caughtUp |-> caughtUp, loadedLocal |-> loadedLocal,
                     blocked |-> blocked,
                     result |-> ServerOkay(elb, IsShutdown, needNetLedger, mode,
                                           caughtUp, loadedLocal, blocked)]
    /\ UNCHANGED <<cfg, hashCall, spaceSeen, mnVars, lifeVars, ledgerVars>>

\* ----------------------------------------------------------------- run()

\* lines 1180-1199: the order of the calls of run()
MutRunAfterSkipStart(pc) ==
    IF pc = "prepare" THEN "wait" ELSE IF pc = "wait" THEN "onStop" ELSE "done"
RunAfter(pc) ==
    IF pc = "prepare" THEN "start"
    ELSE IF pc = "start" THEN "wait"
    ELSE IF pc = "wait" THEN "onStop"
    ELSE "done"

\* beast::RootStoppable: prepare(), start(), stop() and stopped()
RootPrepare(l) == IF l = "Constructed" THEN "Prepared" ELSE l
RootStart(l) == IF l \in {"Constructed", "Prepared"} THEN "Started" ELSE l
RootStop(l) == IF l = "Stopped" THEN l ELSE "Stopping"
RootStopped(l) == "Stopped"

\* line 1180: prepare(), lines 805-807: onPrepare
Prepare ==
    /\ mainPc = "prepare"
    /\ life' = RootPrepare(life)
    /\ mainPc' = RunAfter("prepare")
    /\ UNCHANGED <<exitCode, exitSite, stopIdx, stopLog, shutdownRuns, probe, resolver>>
    /\ UNCHANGED <<deadlockDetector, sigVars, timerVars, jobVars>>
    /\ UNCHANGED <<mnVars, envVars, ledgerVars>>

\* lines 1181-1192: start(), lines 809-819: onStart, activateDeadlockDetector
Start ==
    /\ mainPc = "start"
    /\ life' = RootStart(life)
    /\ sweepTimer' = "initial"
    /\ entropyTimer' = "recurring"
    /\ probe' = "sampling"
    /\ resolver' = "running"
    /\ deadlockDetector' = ~cfg.standalone
    /\ mainPc' = RunAfter("start")
    /\ UNCHANGED <<exitCode, exitSite, stopIdx, stopLog, shutdownRuns, firings, entropyAdds>>
    /\ UNCHANGED <<sigVars, jobVars, mnVars, envVars, ledgerVars>>

\* lines 1194-1199: m_stop.wait() returns (the event resets), stop() begins
WaitReturn ==
    /\ mainPc = "wait"
    /\ m_stop
    /\ m_stop' = FALSE
    /\ life' = RootStop(life)
    /\ shutdownRuns' = shutdownRuns + 1
    /\ stopIdx' = 1
    /\ mainPc' = RunAfter("wait")
    /\ UNCHANGED <<exitCode, exitSite, stopLog, probe, resolver, deadlockDetector>>
    /\ UNCHANGED <<stopRequested, extStops, sigHist, sigWait, timerVars, jobVars>>
    /\ UNCHANGED <<mnVars, envVars, ledgerVars>>

\* lines 822-855: the statements of onStop, in order
MutOnStopBroadcastLast ==
    <<"latency.cancel_async", "latency.cancel", "resolver.stop_async",
      "resolver.stop", "sweepTimer.cancel", "entropyTimer.cancel",
      "validations.flush", "saveValidatorKeyManifests", "stopped",
      "signals.Shutdown">>
OnStopSteps ==
    <<"latency.cancel_async", "latency.cancel", "resolver.stop_async",
      "resolver.stop", "sweepTimer.cancel", "entropyTimer.cancel",
      "validations.flush", "saveValidatorKeyManifests", "signals.Shutdown",
      "stopped">>

\* one statement of onStop; stopped() lets stop() finish: the root is stopped
OnStopStep ==
    /\ mainPc = "onStop"
    /\ stopIdx \in 1..Len(OnStopSteps)
    /\ LET st == OnStopSteps[stopIdx] IN
          /\ stopLog' = Append(stopLog, st)
          /\ probe' = IF st = "latency.cancel_async" THEN "cancelling"
                      ELSE IF st = "latency.cancel" THEN "cancelled" ELSE probe
          /\ resolver' = IF st = "resolver.stop_async" THEN "stopping"
                         ELSE IF st = "resolver.stop" THEN "stopped" ELSE resolver
          /\ sweepTimer' = IF st = "sweepTimer.cancel" THEN "off" ELSE sweepTimer
          /\ entropyTimer' = IF st = "entropyTimer.cancel" THEN "off" ELSE entropyTimer
          /\ life' = IF st = "stopped" THEN RootStopped(life) ELSE life
    /\ stopIdx' = IF stopIdx = Len(OnStopSteps) THEN 0 ELSE stopIdx + 1
    /\ mainPc' = IF stopIdx = Len(OnStopSteps) THEN "finish" ELSE mainPc
    /\ UNCHANGED <<exitCode, exitSite, shutdownRuns, deadlockDetector, firings, entropyAdds>>
    /\ UNCHANGED <<sigVars, jobVars, mnVars, envVars, ledgerVars>>

\* lines 1200-1202: run() returns
RunReturn ==
    /\ mainPc = "finish"
    /\ mainPc' = RunAfter("finish")
    /\ UNCHANGED <<exitCode, exitSite, stopVars, sigVars, timerVars, jobVars>>
    /\ UNCHANGED <<mnVars, envVars, ledgerVars>>

MainThread ==
    \/ SetupBegin
    \/ \E ct \in CloseTimes : StartGenesisLedger(ct)
    \/ SetupFinish
    \/ Prepare
    \/ Start
    \/ WaitReturn
    \/ OnStopStep
    \/ RunReturn

LifeInit ==
    /\ maxSeq = 0
    /\ maxSeqLock = 0
    /\ stack = [t \in Threads |-> <<>>]
    /\ notified = {}
    /\ lastAcquire = <<ZeroHash, 0>>
    /\ loopStat = NoLoopStat
    /\ spaceSeen = NoSpace
    /\ cfg \in [startUp : {"FRESH"}, standalone : BOOLEAN, ledgerID : {DefaultLedgerID}]
    /\ txStore = {<<>>}
    /\ AppInit

LifeNext ==
    \/ MainThread
    \/ SignalStopCall
    \/ \E ec \in {"none", "aborted", "other"} : Signalled(ec)
    \/ \E space \in Spaces : SweepTimerFire(space)
    \/ EntropyTimerFire
    \/ \E w \in Workers : SweepBegin(w) \/ SweepStep(w) \/ SweepRearm(w)

SpecLife == LifeInit /\ [][LifeNext]_vars

\* the same, with the free space each firing of the sweep timer read recorded
SpaceInit ==
    /\ maxSeq = 0
    /\ maxSeqLock = 0
    /\ stack = [t \in Threads |-> <<>>]
    /\ notified = {}
    /\ lastAcquire = <<ZeroHash, 0>>
    /\ loopStat = NoLoopStat
    /\ spaceSeen = SpaceWatch
    /\ cfg \in [startUp : {"FRESH"}, standalone : BOOLEAN, ledgerID : {DefaultLedgerID}]
    /\ txStore = {<<>>}
    /\ AppInit

SpecSpace == SpaceInit /\ [][LifeNext]_vars

\* the same, with eviction calls that may throw
SweepFaultNext ==
    \/ LifeNext
    \/ \E w \in Workers : SweepThrow(w)

SpecSweepFault == LifeInit /\ [][SweepFaultNext]_vars

\* the main thread and the SIGINT listener
SignalNext ==
    \/ MainThread
    \/ RaiseSignal
    \/ \E ec \in {"none", "aborted", "other"} : Signalled(ec)

SpecSignal == LifeInit /\ [][SignalNext]_vars
SpecSignalFair == SpecSignal /\ WF_vars(MainThread)

\* the main thread from setup() to the end of run(), stop requests and
\* health checks
HealthInit ==
    /\ maxSeq = 0
    /\ maxSeqLock = 0
    /\ stack = [t \in Threads |-> <<>>]
    /\ notified = {}
    /\ lastAcquire = <<ZeroHash, 0>>
    /\ loopStat = NoLoopStat
    /\ spaceSeen = NoSpace
    /\ cfg \in [startUp : {"FRESH", "NETWORK"}, standalone : BOOLEAN,
                 ledgerID : {DefaultLedgerID}]
    /\ txStore = {<<>>}
    /\ AppInit

HealthNext ==
    \/ MainThread
    \/ NeedNetworkLedger
    \/ SignalStopCall
    \/ ServerOkayCall

SpecHealth == HealthInit /\ [][HealthNext]_vars

\* the main thread is never starved and every call it makes returns
SpecLifeFair == SpecLife /\ WF_vars(MainThread)

\* ---------------------------------------------- claims on missing_node(seq)

\* the activations that entered the do/while loop and have not returned
LoopFrames == {<<t, i>> \in Threads \X (1..MaxDepth) :
                  i <= Len(stack[t]) /\ stack[t][i].own}
Max2(a, b) == IF a >= b THEN a ELSE b

\* C1: for any interleaving of missing_node(seq) calls with seq >= 1, reentrant
\* ones included, at most one activation is inside the recovery loop.
C1_AtMostOneLoop == Cardinality(LoopFrames) <= 1

\* C1 witness: a loop is running while a reentrant notification of the same
\* thread holds the lock and a notification of another thread waits for it.
C1_Witness ==
    \E t \in Threads, u \in Threads :
        /\ t # u
        /\ Len(stack[t]) = 2 /\ stack[t][1].own /\ stack[t][2].pc = "ret"
        /\ Len(stack[u]) = 1 /\ stack[u][1].pc = "lock"

\* C2 (as claimed): whenever no recovery loop is running the remembered target
\* is idle (0), so that the next notification claims ownership.
C2_ResetOnExit == (LoopFrames = {}) => (maxSeq = 0)

\* C3: a recovery loop leaves the do/while only when the target it read before
\* the unlocked lookup equals the remembered target read after re-locking, and
\* that last looked-up target is the maximum sequence number notified so far.
C3_ExitOnStableMax ==
    \A t \in Threads : \A i \in 1..Len(stack[t]) :
        (stack[t][i].own /\ stack[t][i].pc = "ret")
            => /\ stack[t][i].seq = maxSeq
               /\ stack[t][i].last = stack[t][i].seq
               /\ stack[t][i].last = MaxOf(notified)
               /\ maxSeqLock = t

\* C3 witness: a loop exits after every sequence number has been notified,
\* having started on a smaller target than the one it exits on.
C3_Witness ==
    \E t \in Threads :
        /\ Len(stack[t]) = 1 /\ stack[t][1].own /\ stack[t][1].pc = "ret"
        /\ notified = Seqs
        /\ stack[t][1].seq = MaxSeq

\* C4: a notification that finds a loop running raises the remembered target
\* to max(current, seq) under the lock and goes straight to its return, having
\* looked up and acquired nothing; and a loop exits only having looked up a
\* target at least as large as every sequence number notified.
C4_CoalescedAndPursued ==
    /\ [][\A t \in Threads :
            (/\ Len(stack[t]) > 0
             /\ stack[t][Len(stack[t])].pc = "test"
             /\ LoopFrames # {}
             /\ stack'[t] # stack[t])
            => /\ maxSeq' = Max2(maxSeq, stack[t][Len(stack[t])].seq)
               /\ maxSeqLock' = t
               /\ Len(stack'[t]) = Len(stack[t])
               /\ stack'[t][Len(stack'[t])].pc = "ret"
               /\ ~stack'[t][Len(stack'[t])].own
               /\ stack'[t][Len(stack'[t])].last = 0
               /\ lastAcquire' = lastAcquire]_vars
    /\ [](\A t \in Threads : \A i \in 1..Len(stack[t]) :
            (stack[t][i].own /\ stack[t][i].pc = "ret")
                => \A s \in notified : stack[t][i].last >= s)

\* C4 witness: a coalesced notification has raised the target above the one
\* the running loop is looking up.
C4_Witness ==
    \E t \in Threads, u \in Threads :
        /\ t # u
        /\ Len(stack[t]) = 1 /\ stack[t][1].own /\ stack[t][1].pc = "lookup"
        /\ Len(stack[u]) = 1 /\ ~stack[u][1].own /\ stack[u][1].pc = "ret"
        /\ stack[u][1].seq > stack[t][1].seq
        /\ maxSeq = stack[u][1].seq

\* ------------------------------------------------- claims on the lifecycle

\* C5 (as claimed): no sweep pass is submitted, and so no eviction step runs,
\* for a sweep-timer firing that found free space below the 512 MiB floor.
C5_NoSweepWhenLow ==
    /\ \A i \in 1..Len(sweepJobs) : ~sweepJobs[i]
    /\ \A w \in Workers : ~sweep[w].low

SeqRange(q) == {q[i] : i \in 1..Len(q)}
NoDuplicates(q) == \A i \in 1..Len(q) : \A j \in 1..Len(q) : (q[i] = q[j]) => (i = j)
IsPrefix(p, q) == Len(p) <= Len(q) /\ \A i \in 1..Len(p) : p[i] = q[i]

\* C6: signalStop() is idempotent: however many calls are made, from whatever
\* thread and also during shutdown, the shutdown sequence runs at most once and
\* exactly once when run() has returned; a call made while the event is already
\* signalled changes nothing; and once stop was requested run() returns (or the
\* process had already exited from setup).
C6_SignalStopIdempotent ==
    /\ [](/\ shutdownRuns <= 1
          /\ NoDuplicates(stopLog)
          /\ (mainPc = "done" => shutdownRuns = 1))
    /\ [][(m_stop /\ stopRequested' /\
             (extStops' # extStops \/ (sigWait /\ ~sigWait') \/ firings' # firings))
          => UNCHANGED <<m_stop, life, mainPc, exitCode, stopIdx, stopLog,
                         shutdownRuns, entropyTimer, sweep>>]_vars
    /\ (stopRequested ~> (mainPc \in {"done", "exited"}))

\* C6 witness: run() has returned after one shutdown although signalStop() was
\* called by explicit requests, by the signal handler and by the sweep timer,
\* the last call arriving after the wait had returned.
C6_Witness ==
    /\ mainPc = "done"
    /\ shutdownRuns = 1
    /\ extStops = MaxStopCalls
    /\ ~sigWait
    /\ firings > 0
    /\ m_stop

\* the order of the shutdown steps as the specification lists them
ShutdownOrder ==
    <<"latency.cancel_async", "latency.cancel", "resolver.stop_async",
      "resolver.stop", "sweepTimer.cancel", "entropyTimer.cancel",
      "validations.flush", "saveValidatorKeyManifests", "signals.Shutdown",
      "stopped">>

\* C7: the shutdown steps run in the listed order, the shutdown notification is
\* broadcast exactly once, and always before the controller is Stopped.
C7_ShutdownOrder ==
    /\ IsPrefix(stopLog, ShutdownOrder)
    /\ Cardinality({i \in 1..Len(stopLog) : stopLog[i] = "signals.Shutdown"}) <= 1
    /\ (life = "Stopped") <=> (stopLog = ShutdownOrder)
    /\ (life = "Stopped") => ("signals.Shutdown" \in SeqRange(stopLog))
    /\ ("sweepTimer.cancel" \in SeqRange(stopLog)) => (probe = "cancelled" /\ resolver = "stopped")

\* C7 witness: the shutdown sequence has completed.
C7_Witness == life = "Stopped" /\ Len(stopLog) = Len(ShutdownOrder) /\ mainPc = "finish"

LifeRank(l) ==
    IF l = "Constructed" THEN 0
    ELSE IF l = "Prepared" THEN 1
    ELSE IF l = "Started" THEN 2
    ELSE IF l = "Stopping" THEN 3
    ELSE 4

\* C8: the lifecycle state only moves forward, one state at a time, through
\* Constructed, Prepared, Started, Stopping, Stopped; nothing leaves Stopped.
C8_ForwardOnly ==
    [][/\ life' \in {"Constructed", "Prepared", "Started", "Stopping", "Stopped"}
       /\ \/ life' = life
          \/ LifeRank(life') = LifeRank(life) + 1
       /\ (life = "Stopped" => life' = "Stopped")]_vars

\* C8 witness: Stopped was reached with explicit stop requests, a signal
\* delivery and sweep-timer firings interleaved.
C8_Witness ==
    /\ life = "Stopped"
    /\ extStops = MaxStopCalls
    /\ ~sigWait
    /\ firings = MaxFirings

\* ------------------------------------------------- claims on loadOldLedger

\* loadOldLedger has gone past its validation checks, or has returned
PastGate ==
    mainPc \in {"loadReplay", "loadReplayTx", "loadReturn", "setupRest", "exited"}

C10_MismatchNeverInstalled ==
    (/\ PastGate
     /\ load.via \in {"hash", "latest"}
     /\ load.raw # NoLedger
     /\ load.raw.hash # load.target)
    => /\ load.result = "fail"
       /\ lcl # load.raw
       /\ openLedger # load.raw

\* ------------------------------------------------------ claims on replay

\* the replay package has been handed to the ledger master
HandedOver == cfg.startUp = "REPLAY" /\ load.result = "ok"
DistinctIndexes ==
    \A i \in 1..Len(txMap) : \A j \in 1..Len(txMap) :
        (i # j) => (txMap[i] # txMap[j])

\* C11: whatever the order in which the transaction map is visited, the
\* package handed over lists the transactions in ascending transaction index,
\* each under its own index; with distinct indices it holds every transaction
\* of the ledger; and every transaction in it is already marked
\* signature-verified-only.
C11_ReplayOrdered ==
    HandedOver =>
        /\ \A i \in 1..Len(replayPkg.txns) : \A j \in 1..Len(replayPkg.txns) :
              (i < j) => (replayPkg.txns[i].index < replayPkg.txns[j].index)
        /\ \A i \in 1..Len(replayPkg.txns) :
              /\ replayPkg.txns[i].tx \in 1..Len(txMap)
              /\ replayPkg.txns[i].index = txMap[replayPkg.txns[i].tx]
              /\ replayPkg.txns[i].tx \in sigGoodOnly
        /\ DistinctIndexes =>
              ({replayPkg.txns[i].tx : i \in 1..Len(replayPkg.txns)}
                   = 1..Len(txMap))

\* C11 witness: transactions visited with indices 3, 1, 2 are handed over in
\* the order 1, 2, 3.
C11_Witness ==
    /\ HandedOver
    /\ txMap = <<3, 1, 2>>
    /\ replayPkg.txns = <<[index |-> 1, tx |-> 2], [index |-> 2, tx |-> 3],
                          [index |-> 3, tx |-> 1]>>
    /\ sigGoodOnly = {1, 2, 3}

\* ------------------------------------------------- claims on load by file

\* an entry the loop skips: no index member or a zero index, or a payload
\* that does not parse
BadEntry(e) == ~e.parses \/ UIndex(e) = 0
BadPositions(f) == {i \in 1..Len(f.entries) : BadEntry(f.entries[i])}
GoodPositions(f) == (1..Len(f.entries)) \ BadPositions(f)
\* loadOldLedger has returned from reading a ledger dump with one bad entry
OneBadEntryRead ==
    /\ load.via = "file"
    /\ load.file.status = "ok"
    /\ load.result # "none"
    /\ Cardinality(BadPositions(load.file)) = 1
\* the load succeeded with exactly the valid entries in the state map, each
\* under its own index, and one warning, for the bad entry
ValidEntriesLoaded ==
    /\ load.result = "ok"
    /\ lcl = load.loadLedger
    /\ load.state = {[index |-> UIndex(load.file.entries[i]), pos |-> i] :
                        i \in GoodPositions(load.file)}
    /\ Len(load.warnings) = 1
    /\ load.warnings[1].text = "Invalid entry in ledger"
    /\ load.warnings[1].pos \in BadPositions(load.file)

\* C12 (as claimed): a dump with one bad entry, all others valid, loads
\* successfully with every valid entry inserted and one warning logged.
C12_OneBadEntryLoads == OneBadEntryRead => ValidEntriesLoaded

\* C12 (amended): the same, for a dump that has at least one valid entry and
\* whose valid entries have pairwise distinct indices.
C12_OneBadEntryAmongDistinct ==
    (/\ OneBadEntryRead
     /\ GoodPositions(load.file) # {}
     /\ \A i \in GoodPositions(load.file) : \A j \in GoodPositions(load.file) :
           (i # j) => (UIndex(load.file.entries[i]) # UIndex(load.file.entries[j])))
    => ValidEntriesLoaded

\* C12 witness: a dump of three entries, the second without index member,
\* has been loaded and installed.
C12_Witness ==
    /\ OneBadEntryRead
    /\ ValidEntriesLoaded
    /\ Len(load.file.entries) = 3
    /\ ~load.file.entries[2].hasIndex
    /\ load.file.entries[2].parses
    /\ load.state = {[index |-> 2, pos |-> 1], [index |-> 1, pos |-> 3]}

\* ------------------------------------------------------ claims on genesis

\* startGenesisLedger has run
GenesisDone ==
    /\ StrategyPc(cfg.startUp) \in {"genesis", "network"}
    /\ mainPc \in {"setupRest", "prepare"}

\* C13 (as claimed): after the genesis bootstrap the ledger installed as the
\* authoritative (last closed) starting ledger has sequence 1 and a zero
\* parent hash, and the last close time reported to NetworkOPs is a close
\* time read from the time keeper, the one the successor carries.
C13_GenesisInstalled ==
    GenesisDone =>
        /\ lcl.seq = 1
        /\ lcl.parent = ZeroHash
        /\ lastCloseTime \in CloseTimes
        /\ \E l \in {lcl, openLedger} : l.seq = 2 /\ l.closeTime = lastCloseTime

\* --------------------------------------------------- claims on serverOkay

\* the reason of the first failing condition, in the order of the claim
FirstFailure(h) ==
    IF h.shutdown THEN "Server is shutting down"
    ELSE IF h.needNet THEN "Not synchronized with network yet"
    ELSE IF h.mode < omSYNCING THEN "Not synchronized with network"
    ELSE IF ~h.caughtUp THEN "isCaughtUp"
    ELSE IF h.loadedLocal THEN "Too much load"
    ELSE IF h.blocked THEN "Server version too old"
    ELSE ""
InOrder(h) ==
    /\ h.result.ok = (FirstFailure(h) = "")
    /\ h.result.reason = FirstFailure(h)
    /\ h.shutdown => ~h.result.ok

\* C14 (as claimed): serverOkay answers false with the reason of the first
\* failing condition, in the order shut down, waiting for a network ledger,
\* mode below syncing, not caught up, local load, amendment-blocked; true only
\* when none fails; false whenever the application is shut down.
C14_FirstFailingReason == health.called => InOrder(health)

\* C14 (amended): the same when ELB support is configured; without it
\* serverOkay answers true and leaves the reason alone.
C14_FirstFailingReasonWithElb ==
    health.called =>
        IF health.elb THEN InOrder(health)
        ELSE health.result = [ok |-> TRUE, reason |-> ""]

\* C14 witness: with ELB support, a stopped application that also has too
\* much local load answers false, shutting down.
C14_Witness ==
    /\ health.called
    /\ health.elb
    /\ health.shutdown
    /\ health.loadedLocal
    /\ health.result = [ok |-> FALSE, reason |-> "Server is shutting down"]

\* --------------------------------------- claims on the bootstrap strategy

\* setup() is past the strategy selection of lines 1006-1084
StrategyDone ==
    \/ mainPc \in {"setupRest", "prepare", "start", "wait", "onStop", "finish", "done"}
    \/ mainPc = "exited" /\ bootLog # <<>>
\* the bootstrap calls of each strategy
GenesisCalls == {<<"startGenesisLedger">>}
DumpCalls == {<<"dump">>}
LoadCalls == {<<"loadOldLedger">>, <<"loadOldLedger file">>}
ReplayCalls == {<<"loadOldLedger replay">>}
NetworkCalls == {<<"needNetworkLedger", "startGenesisLedger">>,
                 <<"startGenesisLedger">>}
StrategyCalls(startUp) ==
    IF startUp = "DUMP" THEN DumpCalls
    ELSE IF startUp \in {"LOAD", "LOAD_FILE"} THEN LoadCalls
    ELSE IF startUp = "REPLAY" THEN ReplayCalls
    ELSE IF startUp = "NETWORK" THEN NetworkCalls
    ELSE GenesisCalls
IsPrefixOfSome(q, S) ==
    \E r \in S : Len(q) <= Len(r) /\ q = SubSeq(r, 1, Len(q))
Occurrences(q, x) == Cardinality({i \in 1..Len(q) : q[i] = x})

\* C15: for every START_UP value setup() makes the bootstrap calls of one
\* strategy only, the one configured, each at most once, and all of them once
\* it is past the selection; it never both builds a genesis ledger and
\* attempts a load.
C15_OneStrategy ==
    /\ IsPrefixOfSome(bootLog, StrategyCalls(cfg.startUp))
    /\ \A i \in 1..Len(bootLog) : Occurrences(bootLog, bootLog[i]) = 1
    /\ StrategyDone => bootLog \in StrategyCalls(cfg.startUp)
    /\ ~(storedLedgers # {} /\ load.via # "none")
    /\ ~(\E i \in 1..Len(bootLog), j \in 1..Len(bootLog) :
            /\ bootLog[i] = "startGenesisLedger"
            /\ <<bootLog[j]>> \in LoadCalls \cup ReplayCalls)

\* C15 witness: a load attempt has failed and setup() has ended the process,
\* having made the load call only.
C15_Witness ==
    /\ cfg.startUp = "LOAD"
    /\ mainPc = "exited"
    /\ load.result = "fail"
    /\ bootLog = <<"loadOldLedger">>
    /\ storedLedgers = {}

\* ------------------------------------------- claims on the signal listener

\* C16 (as claimed): the listener calls signalStop() once for every SIGINT
\* that reaches the process, the first and every later one, as long as the
\* process runs; a handler run for a cancelled wait or with an error code
\* requests no stop and ends nothing.
C16_EverySignalStops ==
    /\ [][(sigWait /\ ~sigWait')
           => /\ sigStops' - sigStops = (sigSeen' - sigSeen) + (sigPending - sigPending')
              /\ (sigStops' = sigStops)
                   => (m_stop' = m_stop /\ mainPc' = mainPc /\ exitCode' = exitCode)]_vars
    /\ \A n \in 1..MaxSignals :
          (sigSeen >= n) ~> (sigStops >= n \/ ~Alive)

\* ------------------------------------------------- claims on the sweep

\* the workers that are inside doSweep
Sweeping == {w \in Workers : sweep[w].step > 0}

\* C17: at any time at most one sweep pass exists, queued or running: two
\* passes never run together and a pass is not even submitted before the
\* previous one has finished its steps and re-armed the timer.
C17_NoOverlap ==
    /\ Cardinality(Sweeping) <= 1
    /\ Cardinality(Sweeping) + Len(sweepJobs) <= 1
    /\ (Sweeping # {} \/ sweepJobs # <<>>) => sweepTimer = "off"

\* C17 witness: the second pass is running, half way through its steps.
C17_Witness ==
    /\ firings = 2
    /\ \E w \in Workers : sweep[w].step = 6

\* the order of the eviction steps, as the claim lists them
CanonicalSweep ==
    <<"fullbelow", "txMaster", "nodeStore", "ledgerMaster", "tempNodeCache",
      "validations", "inboundLedgers", "acceptedLedgerCache", "treecache",
      "cachedSLEs">>

\* C18: a firing of the sweep timer above the free-space floor submits exactly
\* one pass; a pass makes the eviction calls in the canonical order, each
\* once; and the pass ends by arming the sweep timer with the interval, after
\* all ten calls.
C18_SweepPass ==
    /\ [][(firings' = firings + 1 /\ ~sweepJobs'[Len(sweepJobs')])
            => /\ sweepJobs' = Append(sweepJobs, FALSE)
               /\ m_stop' = m_stop]_vars
    /\ [](\A w \in Sweeping :
             sweep[w].done = SubSeq(CanonicalSweep, 1, sweep[w].step - 1))
    /\ [][\A w \in Workers :
             (sweep[w].step > 0 /\ sweep'[w].step = 0)
                => /\ sweep[w].done = CanonicalSweep
                   /\ sweepTimer' = "interval"]_vars
    /\ [][(sweepTimer = "off" /\ sweepTimer' = "interval")
            => \E w \in Workers : sweep[w].done = CanonicalSweep]_vars

\* C18 witness: a pass submitted by a firing above the floor has made all its
\* calls and the timer is armed with the interval again.
C18_Witness ==
    /\ firings = 1
    /\ ~stopRequested
    /\ sweepTimer = "interval"
    /\ sweepJobs = <<>>
    /\ Sweeping = {}

\* ------------------------------- claims on the dump and network strategies

\* C19: with START_UP = DUMP setup() never gets past the dump: the dump step
\* ends the process whatever the node store holds for the index, the
\* application stays Constructed and nothing is installed or stored.
C19_DumpTerminates ==
    /\ [](cfg.startUp = "DUMP"
            => /\ mainPc \in {"setup", "dump", "exited"}
               /\ life = "Constructed"
               /\ lcl = NoLedger
               /\ openLedger = NoLedger
               /\ storedLedgers = {})
    /\ [][(mainPc = "dump" /\ bootLog' # bootLog) => mainPc' = "exited"]_vars

\* C19 witness: the dump has run and the process has exited with code 0.
C19_Witness ==
    /\ cfg.startUp = "DUMP"
    /\ bootLog = <<"dump">>
    /\ mainPc = "exited"
    /\ exitCode = <<0>>

\* the network branch of setup() has run to its end
NetworkDone == cfg.startUp = "NETWORK" /\ GenesisDone

\* C20 (as claimed): in every configuration with START_UP = NETWORK, setup()
\* calls needNetworkLedger and then startGenesisLedger.
C20_NeedThenGenesis ==
    NetworkDone
        => /\ bootLog = <<"needNetworkLedger", "startGenesisLedger">>
           /\ needNetLedger

\* C20 (amended): it does so unless the server runs stand-alone; stand-alone
\* it runs the genesis bootstrap only.
C20_NeedThenGenesisUnlessStandalone ==
    NetworkDone
        => IF cfg.standalone
           THEN bootLog = <<"startGenesisLedger">> /\ ~needNetLedger
           ELSE /\ bootLog = <<"needNetworkLedger", "startGenesisLedger">>
                /\ needNetLedger

\* C20 witness: a networked server has asked for a network ledger and then
\* built the genesis ledger.
C20_Witness ==
    /\ NetworkDone
    /\ ~cfg.standalone
    /\ needNetLedger
    /\ bootLog = <<"needNetworkLedger", "startGenesisLedger">>
    /\ storedLedgers = {GenesisLedger}

\* ------------------------------------------------ claims on the exit codes

\* the failure classes that end the process during setup
FatalSites == {"initSqliteDbs", "updateTables", "Setup", "loadOldLedger"}

\* C21 (as claimed): when setup() ends the process for a fatal failure, it
\* passes the code of that failure class, and no other failure class has the
\* same code.
C21_DistinctExitCodes ==
    (mainPc = "exited" /\ exitSite \in FatalSites)
        => /\ exitCode = <<ExitCodeAt(exitSite)>>
           /\ \A other \in FatalSites \ {exitSite} :
                 exitCode # <<ExitCodeAt(other)>>

\* ------------------------------------------- claims on the coordination lock

\* thread t is inside getHashBySeq or acquire, in no nested notification
InCall(t) == Len(stack[t]) > 0 /\ stack[t][Len(stack[t])].pc \in {"lookup", "acquire"}
\* thread t waits for the lock
Waiting(t) == Len(stack[t]) > 0 /\ stack[t][Len(stack[t])].pc \in {"lock", "relock"}

\* the number of statements the holder of the lock executes before it
\* releases it
HoldRank(pc) == IF pc \in {"test", "while"} THEN 2 ELSE 1

\* C22: a thread does not hold the coordination lock while it is in the lookup
\* or in the acquisition request, nor while it waits for the lock; the thread
\* that holds the lock is inside the locked section, can always take its next
\* step and releases the lock within two steps; and a notification that finds
\* a loop running, raised from inside the acquisition on the same thread or
\* from another thread, goes from the lock to its return in one step.
C22_LockNotHeldAcrossCalls ==
    /\ [](\A t \in Threads :
            /\ InCall(t) => maxSeqLock # t
            /\ Waiting(t) => maxSeqLock # t
            /\ (maxSeqLock = t)
                  => /\ Len(stack[t]) > 0
                     /\ stack[t][Len(stack[t])].pc \in {"test", "loopTop", "while", "ret"}
                     /\ ENABLED Step(t))
    /\ [][\A t \in Threads :
            (maxSeqLock = t /\ stack'[t] # stack[t])
                => \/ maxSeqLock' = 0
                   \/ /\ maxSeqLock' = t
                      /\ Len(stack'[t]) = Len(stack[t])
                      /\ HoldRank(stack'[t][Len(stack'[t])].pc)
                            < HoldRank(stack[t][Len(stack[t])].pc)]_vars
    /\ [][\A t \in Threads :
            (/\ Len(stack[t]) > 0
             /\ stack[t][Len(stack[t])].pc = "test"
             /\ LoopFrames # {}
             /\ stack'[t] # stack[t])
                => stack'[t][Len(stack'[t])].pc = "ret"]_vars

\* C22 witness: a notification raised from inside the acquisition request has
\* obtained the lock on the thread that runs the loop, while a notification of
\* another thread waits for it.
C22_Witness ==
    \E t \in Threads, u \in Threads :
        /\ t # u
        /\ Len(stack[t]) = 2
        /\ stack[t][1].own /\ stack[t][1].pc = "acquire"
        /\ stack[t][2].pc = "ret" /\ ~stack[t][2].own
        /\ maxSeqLock = t
        /\ Len(stack[u]) = 1 /\ stack[u][1].pc = "lock"

\* ------------------------------------------- claims on shutdown and the sweep

\* onStop has executed m_sweepTimer.cancel ()
SweepTimerCancelled == "sweepTimer.cancel" \in SeqRange(stopLog)

\* C23 (as claimed): once the shutdown sequence has cancelled the sweep timer
\* the timer stays unarmed, so that it cannot fire and submit a further pass,
\* also when a pass submitted before the shutdown completes afterwards.
C23_NoRearmAfterCancel == SweepTimerCancelled => sweepTimer = "off"

\* ------------------------------------------- claims on a failed load attempt

\* C24 (as claimed): when loadOldLedger has returned failure, for whatever
\* cause, the last closed ledger and the open ledger are as they were before
\* the call: none installed, no transaction put into the open view.
C24_FailureLeavesLedgers ==
    (load.result = "fail")
        => /\ lcl = NoLedger
           /\ openLedger = NoLedger
           /\ openTxs = <<>>

\* ------------------------------------------- claims on the remembered target

\* C25: while a recovery loop is active every step leaves the remembered
\* target where it was or stores a larger value.
C25_TargetMonotonic ==
    [][(LoopFrames # {}) => (maxSeq' >= maxSeq)]_vars

\* C25 witness: a loop is back under the lock after its acquisition attempt
\* and finds the target raised above the one it pursued, every sequence
\* number, also the smaller ones, having been notified meanwhile.
C25_Witness ==
    \E t \in Threads :
        /\ Len(stack[t]) = 1 /\ stack[t][1].own /\ stack[t][1].pc = "while"
        /\ stack[t][1].last < maxSeq
        /\ notified = Seqs
        /\ maxSeq = MaxSeq

\* the threads that have an activation inside the recovery loop
LoopThreads == {t \in Threads : \E i \in 1..Len(stack[t]) : stack[t][i].own}

\* C26 (as claimed): also when notifications may carry sequence number 0, at
\* most one thread is inside the recovery loop at any time.
C26_OneLoopThreadWithZero == Cardinality(LoopThreads) <= 1

\* ------------------------------------------- claims on the replay package

\* C27 (as claimed): the package handed over names as its prior ledger the
\* parent of the ledger to replay, which is the ledger that passed the checks
\* and was installed as last closed ledger, and carries the close time of the
\* ledger to replay.
C27_PackageRefersToParent ==
    HandedOver =>
        /\ lcl = load.loadLedger
        /\ replayPkg.prevLedger = load.loadLedger
        /\ replayPkg.closeTime = load.replayLedger.closeTime

\* ------------------------------------------- claims on re-arming the sweep timer

\* a firing of the sweep timer that found enough free space
FiredAboveFloor ==
    /\ firings' = firings + 1
    /\ ~sweepJobs'[Len(sweepJobs')]

\* C28 (as claimed): a firing with enough free space leaves the sweep timer
\* armed with the interval, right after it has submitted the pass.
C28_RearmAtSubmission ==
    [][FiredAboveFloor => sweepTimer' = "interval"]_vars

\* C28 (amended): a firing with enough free space submits one pass and leaves
\* the timer unarmed; the timer stays unarmed while that pass is queued or
\* running, and it is armed with the interval only by the step that ends a
\* pass, after the last eviction call.
C28_RearmAtEndOfPass ==
    /\ [][FiredAboveFloor
            => /\ sweepTimer' = "off"
               /\ Len(sweepJobs') = Len(sweepJobs) + 1]_vars
    /\ []((\E w \in Workers : sweep[w].step > 0 /\ ~sweep[w].low)
            => sweepTimer = "off")
    /\ []((\E i \in 1..Len(sweepJobs) : ~sweepJobs[i]) => sweepTimer = "off")
    /\ [][(sweepTimer' = "interval" /\ sweepTimer # "interval")
            => \E w \in Workers :
                  /\ sweep[w].step = Len(SweepSteps) + 1
                  /\ Len(sweep[w].done) = Len(SweepSteps)
                  /\ sweep'[w].step = 0]_vars

\* C28 witness: the pass submitted by the first firing, which found enough free
\* space, has made three of its calls and the timer is not armed.
C28_Witness ==
    /\ firings = 1
    /\ ~stopRequested
    /\ sweepTimer = "off"
    /\ \E w \in Workers : sweep[w].step = 4 /\ ~sweep[w].low

\* ------------------------------------------- claims on missing_node(hash)

\* a call of missing_node (hash) that is not a repetition of the last one
HashCalled == hashCall' # hashCall
\* the call leaves the coordinator of the sequence path alone
SeqPathUntouched == UNCHANGED <<maxSeq, maxSeqLock, stack, notified>>

\* C29 (as claimed): a report by hash leaves the remembered target, the lock
\* and every activation of the sequence path as they are, can be made whoever
\* holds the lock, and requests the acquisition of the hash it was given,
\* whatever that hash is, with sequence number 0.
C29_HashPathAcquires ==
    /\ [][HashCalled => SeqPathUntouched]_vars
    /\ [](\A h \in Hashes \cup {ZeroHash} : ENABLED MissingNodeHash(h))
    /\ [](hashCall.called
            => hashCall.request = <<hashCall.hash, 0>>)

\* C29 (amended): the same, for every hash that is not zero; for the zero hash
\* no acquisition is requested.
C29_NonZeroHashPathAcquires ==
    /\ [][HashCalled => SeqPathUntouched]_vars
    /\ [](\A h \in Hashes \cup {ZeroHash} : ENABLED MissingNodeHash(h))
    /\ [](hashCall.called
            => hashCall.request = IF hashCall.hash # ZeroHash
                                  THEN <<hashCall.hash, 0>> ELSE <<>>)
    /\ [][HashCalled
            => lastAcquire' = IF hashCall'.hash # ZeroHash
                              THEN <<hashCall'.hash, 0>> ELSE lastAcquire]_vars

\* C29 witness: a report by hash has requested its acquisition while a
\* recovery loop holds the lock.
C29_Witness ==
    /\ hashCall.called
    /\ hashCall.hash # ZeroHash
    /\ lastAcquire = <<hashCall.hash, 0>>
    /\ maxSeqLock = SeqThread
    /\ maxSeq = MaxSeq
    /\ LoopFrames # {}

\* ------------------------------------------- claims on finding the ledger

\* loadOldLedger, asked for a ledger by hash or by sequence number, has
\* reported that it found none
NoLedgerFound ==
    /\ load.via \in {"hash", "number"}
    /\ load.result = "fail"
    /\ load.cause = "No Ledger found"

\* C30 (as claimed): by hash and by sequence number alike, the loader reports
\* that it found no ledger only after the local-availability check was asked
\* and failed too.
C30_FallbackOnBothPaths == NoLedgerFound => load.checkedLocal

\* ------------------------------------------- claims on a failing sweep step

\* C31 (as claimed): also when an eviction call throws, a pass ends only after
\* all the eviction calls have been made, and it ends by arming the sweep timer
\* with the interval.
C31_StepFailureContained ==
    [][\A w \in Workers :
          (sweep[w].step > 0 /\ sweep'[w].step = 0)
             => /\ SeqRange(sweep'[w].done) \cup SeqRange(sweep[w].done)
                      = SeqRange(SweepSteps)
                /\ sweepTimer' = "interval"]_vars

\* ------------------------------------------- claims on an early stop request

\* setup() has returned and run() has not reached m_stop.wait () yet
BeforeWait == mainPc \in {"prepare", "start"}

\* C32: a stop requested before run() waits stays pending: the event is reset
\* only by the wait of run(), which is reached after prepare() and start();
\* and from every state where a stop has been requested and run() is not yet
\* waiting, the shutdown sequence runs and the application reaches Stopped,
\* unless the process ends, which only the first part of setup() can do.
C32_EarlyStopNotLost ==
    /\ [][(m_stop /\ ~m_stop')
            => /\ mainPc = "wait"
               /\ life = "Started"
               /\ mainPc' = "onStop"
               /\ life' = "Stopping"]_vars
    /\ [](stopRequested /\ BeforeWait => m_stop)
    /\ [][(mainPc # "setup") => (mainPc' # "exited")]_vars
    /\ (stopRequested /\ mainPc \in {"setup", "genesis", "setupRest", "prepare", "start"})
          ~> (life = "Stopped" \/ mainPc = "exited")

\* C32 witness: the signal listener has requested the stop, run() has prepared
\* and is about to start, and the event is still signalled.
C32_Witness ==
    /\ mainPc = "start"
    /\ life = "Prepared"
    /\ m_stop
    /\ sigStops = 1
    /\ extStops = 0

\* ------------------------------------------- claims on loop termination

\* C33: a recovery loop has begun at most one iteration more than the number
\* of times the remembered target was raised since it began, and the target is
\* raised less often than sequence numbers were notified; and with finitely
\* many notifications every recovery loop ends.
C33_LoopTerminates ==
    /\ [](LoopFrames # {}
            => /\ loopStat.iters <= loopStat.raised + 1
               /\ loopStat.raised < Cardinality(notified))
    /\ (LoopFrames # {}) ~> (LoopFrames = {})

\* C33 witness: a loop leaves the do/while after three iterations, the target
\* having been raised twice while it ran.
C33_Witness ==
    \E t \in Threads :
        /\ Len(stack[t]) = 1 /\ stack[t][1].own /\ stack[t][1].pc = "ret"
        /\ loopStat = [on |-> TRUE, iters |-> 3, raised |-> 2]

\* ---------------------------------------------------------------- C34
\* the activation of thread t that runs, if any, is at this step
AtPc(t, pc) == Depth(t) > 0 /\ Top(t).pc = pc
\* thread t's running activation took a step and stayed on the stack
Stepped(t) == Len(stack'[t]) = Len(stack[t]) /\ stack'[t] # stack[t]
TopNext(t) == stack'[t][Len(stack'[t])]

\* C34: in an iteration of the recovery loop, acquire is called only after
\* getHashBySeq returned a hash that is not zero for the iteration's target,
\* and then with that hash and that sequence number; with a zero hash nothing
\* is requested, and when maxSeq still equals the target at the while test the
\* loop ends without looking the target up again.
C34_AcquireOnlyNonZero ==
    /\ [](\A t \in Threads :
            AtPc(t, "acquire") =>
                /\ Top(t).hash # ZeroHash
                /\ Top(t).last = Top(t).seq
                /\ Top(t).own)
    /\ [][\A t \in Threads :
            /\ (AtPc(t, "lookup") /\ Stepped(t) /\ TopNext(t).hash = ZeroHash)
                  => (TopNext(t).pc = "relock" /\ lastAcquire' = lastAcquire)
            /\ (AtPc(t, "acquire") /\ Stepped(t))
                  => (lastAcquire' = <<Top(t).hash, Top(t).seq>>
                      /\ TopNext(t).pc = "relock")
            /\ (AtPc(t, "while") /\ Stepped(t) /\ maxSeq = Top(t).seq)
                  => TopNext(t).pc = "ret"]_vars
    /\ [][lastAcquire' # lastAcquire
            => \E t \in Threads : AtPc(t, "acquire") /\ Stepped(t)]_vars

\* a loop that acquired for one target, was given a newer one, got a zero hash
\* for it and returns
C34_Witness ==
    \E t \in Threads :
        /\ AtPc(t, "ret")
        /\ Top(t).own
        /\ Top(t).hash = ZeroHash
        /\ Top(t).last = maxSeq
        /\ lastAcquire[1] # ZeroHash
        /\ lastAcquire[2] # maxSeq

\* ---------------------------------------------------------------- C35
\* replay mode, past the lookup of the parent
ReplayPastParent ==
    /\ cfg.startUp = "REPLAY"
    /\ mainPc \in {"loadGate", "loadReplay", "loadReplayTx"}

C36_DisabledAlwaysOkay ==
    (health.called /\ ~health.elb)
        => /\ health.result.ok
           /\ health.result.reason = ""

\* a call with ELB_SUPPORT off after the shutdown, when every other check
\* would fail
C36_Witness ==
    /\ health.called
    /\ ~health.elb
    /\ health.shutdown
    /\ life = "Stopped"
    /\ health.needNet
    /\ health.mode < omSYNCING
    /\ ~health.caughtUp
    /\ health.loadedLocal
    /\ health.blocked
    /\ health.result.ok

\* ---------------------------------------------------------------- C37
\* the document the load by file was given, and what is left of it once a
\* "result" wrapper and then a "ledger" wrapper have been taken off
FileDoc == load.file.doc
FileBody ==
    LET a == IF HasResult(FileDoc) THEN FileDoc.result ELSE FileDoc
    IN  IF HasLedger(a) THEN a.ledger ELSE a
\* the entry list of the document is an array
FileListIsArray ==
    IF HasAccountState(FileBody) THEN FileBody.state = "array"
    ELSE FileBody.kind = "array"

\* C37: the load by file takes off a "result" wrapper and then a "ledger"
\* wrapper; with an accountState member the sequence number is ledger_index,
\* or 1 when that is absent, and the close time resolution is
\* close_time_resolution, or 30 when that is absent; when the entry list is
\* not an array no ledger is built and the load returns failure.
C37_FileHeaderRules ==
    (load.via = "file")
        => /\ HasAccountState(FileBody)
                => /\ load.file.seq =
                        (IF FileBody.index = <<>> THEN 1 ELSE FileBody.index[1])
                   /\ load.file.resolution =
                        (IF FileBody.res = <<>> THEN 30 ELSE FileBody.res[1])
           /\ FileListIsArray
                => /\ load.loadLedger # NoLedger
                   /\ load.loadLedger.seq = load.file.seq
                   /\ load.cause # "No Ledger found"
           /\ ~FileListIsArray
                => /\ load.result = "fail"
                   /\ load.cause = "No Ledger found"
                   /\ load.loadLedger = NoLedger
                   /\ lcl = NoLedger

\* a ledger export wrapped under "result" and "ledger", next to a "ledger"
\* member of the outer object that is not looked at, loaded and installed
\* with the sequence number and the resolution it names
C37_Witness ==
    /\ load.via = "file"
    /\ load.result = "ok"
    /\ HasResult(FileDoc)
    /\ HasLedger(FileDoc)
    /\ HasLedger(FileDoc.result)
    /\ FileBody = FileDoc.result.ledger
    /\ FileBody # FileDoc.ledger
    /\ HasAccountState(FileBody)
    /\ FileBody.state = "array"
    /\ lcl.seq = DocIndex
    /\ load.file.resolution = DocResolution

\* ---------------------------------------------------------------- C38
\* the sweep timer fires
SweepFires == firings' = firings + 1
\* the free space that firing read, in bytes
SpaceRead == spaceSeen'.space[1]

\* C38: the firing of the sweep timer calls signalStop() when the free space,
\* a count of bytes, is less than 536870912, and only then: not with exactly
\* 536870912 bytes available, nor with more.
C38_StrictFloor ==
    [][SweepFires =>
          /\ spaceSeen'.space # <<>>
          /\ sweepJobs'[Len(sweepJobs')] = (SpaceRead < 536870912)
          /\ IF SpaceRead < 536870912
             THEN m_stop' /\ stopRequested'
             ELSE m_stop' = m_stop /\ stopRequested' = stopRequested]_vars

\* the sweep timer has fired with exactly 512 MiB available and no stop has
\* been requested
C38_Witness ==
    /\ spaceSeen.space = <<512 * 1024 * 1024>>
    /\ firings = 1
    /\ ~stopRequested
    /\ ~m_stop
    /\ sweepJobs = <<FALSE>>

====
